---- MODULE Spec2Model ----
(***************************************************************************)
(* pixel-forge: the generation-support pipeline.                           *)
(*                                                                         *)
(* The model follows the engine sources: the seeded stream (rng.ts), the   *)
(* pixel buffer (pixelCanvas), the palette stages and enforceRetro         *)
(* (palette.ts), the SimilarityGuard class (similarityGuard) and the       *)
(* orchestrator runModule (index.ts).                                      *)
(*                                                                         *)
(* Number representations                                                  *)
(*   - an unsigned 32-bit word is the pair <<hi, lo>> of its 16-bit        *)
(*     halves; all stream arithmetic is exact modulo 2^32;                 *)
(*   - a packed ARGB pixel is the tuple <<a, r, g, b>> of its four bytes;  *)
(*   - a float drawn from a stream is carried to 16 fractional bits (the   *)
(*     high half of the 32-bit word the stream produced);                  *)
(*   - a numeric parameter is a fixed-point integer in units of 1/PUnit;   *)
(*   - a histogram is a record [num, den]: bin i holds num[i] / den.       *)
(***************************************************************************)
EXTENDS Integers, Sequences, FiniteSets, TLC

(***************************************************************************)
(* 32-bit words                                                            *)
(***************************************************************************)
Half == 65536

RECURSIVE BitXor(_, _)
BitXor(a, b) ==
  IF a = 0 THEN b
  ELSE IF b = 0 THEN a
  ELSE (((a % 2) + (b % 2)) % 2) + 2 * BitXor(a \div 2, b \div 2)

RECURSIVE BitOr(_, _)
BitOr(a, b) ==
  IF a = 0 THEN b
  ELSE IF b = 0 THEN a
  ELSE (IF a % 2 = 1 \/ b % 2 = 1 THEN 1 ELSE 0) + 2 * BitOr(a \div 2, b \div 2)

Xor32(x, y) == <<BitXor(x[1], y[1]), BitXor(x[2], y[2])>>

Or32(x, y) == <<BitOr(x[1], y[1]), BitOr(x[2], y[2])>>

Add32(x, y) ==
  LET lo == x[2] + y[2]
  IN  <<(x[1] + y[1] + (lo \div Half)) % Half, lo % Half>>

\* x >>> n for 0 < n < 16
Shr32(x, n) ==
  LET p == 2 ^ n
      q == 2 ^ (16 - n)
  IN  <<x[1] \div p, (x[1] % p) * q + (x[2] \div p)>>

\* Math.imul: the low 32 bits of the product, by bytes
imul(x, y) ==
  LET a0 == x[2] % 256
      a1 == x[2] \div 256
      a2 == x[1] % 256
      a3 == x[1] \div 256
      b0 == y[2] % 256
      b1 == y[2] \div 256
      b2 == y[1] % 256
      b3 == y[1] \div 256
      c0 == a0 * b0
      c1 == a0 * b1 + a1 * b0 + (c0 \div 256)
      c2 == a0 * b2 + a1 * b1 + a2 * b0 + (c1 \div 256)
      c3 == a0 * b3 + a1 * b2 + a2 * b1 + a3 * b0 + (c2 \div 256)
  IN  <<(c3 % 256) * 256 + (c2 % 256), (c1 % 256) * 256 + (c0 % 256)>>

(***************************************************************************)
(* rng.ts: mulberry32.  A stream is its state t; t += 0x6D2B79F5 is taken  *)
(* modulo 2^32, which is what every later use of t (x = t under ^ and      *)
(* >>>, t ^ 0x9e3779b9 in split) reads of it.                              *)
(***************************************************************************)
FnvOffset == <<33052, 40389>>   \* 2166136261

FnvPrime == <<256, 403>>        \* 16777619

Weyl == <<27947, 31221>>        \* 0x6D2B79F5

Golden == <<40503, 31161>>      \* 0x9e3779b9

\* hashStr over the character codes of the label
RECURSIVE hashFrom(_, _, _)
hashFrom(h, codes, i) ==
  IF i > Len(codes) THEN h
  ELSE hashFrom(imul(Xor32(h, <<0, codes[i]>>), FnvPrime), codes, i + 1)

hashStr(codes) == hashFrom(FnvOffset, codes, 1)

mulberry32(seed) == seed

\* line 12: x = Math.imul(x ^ (x >>> 15), 1 | x)
Mix15(x) == imul(Xor32(x, Shr32(x, 15)), Or32(<<0, 1>>, x))

\* line 13: x ^= x + Math.imul(x ^ (x >>> 7), 61 | x)
Mix7(x) == Xor32(x, Add32(x, imul(Xor32(x, Shr32(x, 7)), Or32(<<0, 61>>, x))))

\* line 14: x ^ (x >>> 14)
Mix14(x) == Xor32(x, Shr32(x, 14))

\* lines 11-14 on the advanced state
WordOf(t) == [t |-> t, x |-> Mix14(Mix7(Mix15(t)))]

\* line 10: t += 0x6D2B79F5, the state one call of next() leaves
Advance(t) == Add32(t, Weyl)

\* one call of next(): the advanced state and the 32-bit word produced
next(t) == WordOf(Advance(t))

\* nextFloat(): the float is word / 2^32, carried as its top 16 bits / 65536
nextFloat(t) == [t |-> next(t).t, f |-> next(t).x[1]]

\* nextInt(n) = floor(next() * n), for n < 32768
nextInt(t, n) ==
  [t |-> next(t).t,
   v |-> (next(t).x[1] * n + ((next(t).x[2] * n) \div Half)) \div Half]

\* split(label): a new stream; the parent's t is read, not written
splitHashed(t, h) == mulberry32(Add32(Xor32(t, Golden), h))

split(t, codes) ==
  splitHashed(t, IF Len(codes) > 0 THEN hashStr(codes) ELSE <<0, 0>>)

(***************************************************************************)
(* pixelCanvas: createPixelCanvas.  data[y * w + x + 1] is pixel (x, y).   *)
(***************************************************************************)
Transparent == <<0, 0, 0, 0>>

\* argb(a, r, g, b) as a Uint32Array holds it, that is argb(...) >>> 0
argb(a, r, g, b) == <<a % 256, r % 256, g % 256, b % 256>>

\* An integer colour n is the tuple <<a, r, g, b>> with
\* n = a * 2^24 + r * 2^16 + g * 2^8 + b and r, g, b in 0..255; it is an
\* unsigned 32-bit value, as a Uint32Array holds it, when a is in 0..255.
\* c >>> 0 of an integer colour
Uint32(c) == <<c[1] % 256, c[2], c[3], c[4]>>

\* the number that argb(a, r, g, b) returns: | yields a signed 32-bit value,
\* negative when bit 7 of a is set
argbInt32(a, r, g, b) ==
  <<IF a % 256 >= 128 THEN (a % 256) - 256 ELSE a % 256, r % 256, g % 256, b % 256>>

createPixelCanvas(w, h) ==
  [w |-> w, h |-> h, data |-> [i \in 1..(w * h) |-> Transparent]]

InBounds(cv, x, y) == x >= 0 /\ y >= 0 /\ x < cv.w /\ y < cv.h

\* set(x, y, c): out-of-bounds writes are dropped
\* variant: the colour is stored as the number it was given as
CanvasSetUnconverted(cv, x, y, c) ==
  IF InBounds(cv, x, y)
  THEN [cv EXCEPT !.data[y * cv.w + x + 1] = c]
  ELSE cv

CanvasSet(cv, x, y, c) ==
  IF InBounds(cv, x, y)
  THEN [cv EXCEPT !.data[y * cv.w + x + 1] = Uint32(c)]
  ELSE cv

\* get(x, y): out-of-bounds reads are 0
CanvasGet(cv, x, y) ==
  IF InBounds(cv, x, y) THEN cv.data[y * cv.w + x + 1] ELSE Transparent

\* the source pixel that blit copies onto destination index i, if any
BlitSource(cv, src, dx, dy, i) ==
  LET tx == (i - 1) % cv.w
      ty == (i - 1) \div cv.w
      sx == tx - dx
      sy == ty - dy
  IN  IF sx >= 0 /\ sy >= 0 /\ sx < src.w /\ sy < src.h
      THEN src.data[sy * src.w + sx + 1]
      ELSE Transparent

\* variant: transparent source pixels are copied as well
blitEveryPixel(cv, src, dx, dy) ==
  [cv EXCEPT !.data =
     [i \in 1..(cv.w * cv.h) |->
        IF /\ ((i - 1) % cv.w) - dx \in 0..(src.w - 1)
           /\ ((i - 1) \div cv.w) - dy \in 0..(src.h - 1)
        THEN BlitSource(cv, src, dx, dy, i)
        ELSE cv.data[i]]]

\* blit(src, dx, dy): alpha-tested copy, clipped to the destination
blit(cv, src, dx, dy) ==
  [cv EXCEPT !.data =
     [i \in 1..(cv.w * cv.h) |->
        IF BlitSource(cv, src, dx, dy, i)[1] # 0
        THEN BlitSource(cv, src, dx, dy, i)
        ELSE cv.data[i]]]

(***************************************************************************)
(* palette.ts: the built-in palettes and the registry lookup               *)
(***************************************************************************)
NES_13 ==
  <<<<255, 0, 0, 0>>, <<255, 29, 43, 83>>, <<255, 126, 37, 83>>,
    <<255, 0, 135, 81>>, <<255, 171, 82, 54>>, <<255, 95, 87, 79>>,
    <<255, 194, 195, 199>>, <<255, 255, 241, 232>>, <<255, 255, 0, 77>>,
    <<255, 255, 163, 0>>, <<255, 255, 236, 39>>, <<255, 0, 228, 54>>,
    <<255, 41, 173, 255>>>>

GB_4 ==
  <<<<255, 15, 56, 15>>, <<255, 48, 98, 48>>, <<255, 139, 172, 15>>,
    <<255, 155, 188, 15>>>>

SNES_32 ==
  <<<<255, 0, 0, 0>>, <<255, 255, 255, 255>>, <<255, 192, 192, 192>>,
    <<255, 128, 128, 128>>, <<255, 64, 64, 64>>, <<255, 27, 27, 58>>,
    <<255, 45, 58, 105>>, <<255, 59, 93, 201>>, <<255, 107, 154, 245>>,
    <<255, 20, 61, 43>>, <<255, 33, 126, 75>>, <<255, 61, 187, 117>>,
    <<255, 155, 214, 180>>, <<255, 81, 34, 11>>, <<255, 139, 69, 19>>,
    <<255, 192, 114, 60>>, <<255, 224, 180, 122>>, <<255, 59, 13, 44>>,
    <<255, 122, 27, 69>>, <<255, 196, 58, 95>>, <<255, 245, 138, 169>>,
    <<255, 58, 31, 15>>, <<255, 122, 63, 31>>, <<255, 191, 127, 63>>,
    <<255, 255, 175, 111>>, <<255, 22, 22, 22>>, <<255, 44, 44, 44>>,
    <<255, 74, 74, 74>>, <<255, 111, 111, 111>>, <<255, 148, 193, 31>>,
    <<255, 213, 224, 74>>, <<255, 241, 245, 143>>>>

\* the registry as the module leaves it after loading
BuiltinPalettes ==
  [id \in {"NES_13", "SNES_32", "GB_4"} |->
     CASE id = "NES_13"  -> [name |-> "NES_13", colors |-> NES_13, maxColors |-> 13]
       [] id = "SNES_32" -> [name |-> "SNES_32", colors |-> SNES_32, maxColors |-> 32]
       [] id = "GB_4"    -> [name |-> "GB_4", colors |-> GB_4, maxColors |-> 4]]

\* Palettes[opts.paletteName] || Palettes.NES_13
\* what a palette variable holds when both lookups gave undefined
NoPalette == [name |-> "undefined", colors |-> <<>>, maxColors |-> 0]

PaletteLookup(registry, paletteName) ==
  IF paletteName \in DOMAIN registry THEN registry[paletteName]
  ELSE IF "NES_13" \in DOMAIN registry THEN registry["NES_13"]
  ELSE NoPalette

(***************************************************************************)
(* palette.ts: nearestColorIndex, quantizeNearest, applyBayer,             *)
(* applyPaletteMicroJitter                                                 *)
(***************************************************************************)
\* variant: the alpha channel takes part in the distance
SqDistWithAlpha(c, d) ==
  (c[1] - d[1]) * (c[1] - d[1]) + (c[2] - d[2]) * (c[2] - d[2])
    + (c[3] - d[3]) * (c[3] - d[3]) + (c[4] - d[4]) * (c[4] - d[4])

SqDist(c, d) ==
  (c[2] - d[2]) * (c[2] - d[2]) + (c[3] - d[3]) * (c[3] - d[3])
    + (c[4] - d[4]) * (c[4] - d[4])

BestDInit == 1000000000

\* the loop of nearestColorIndex from index i (0-based) with the running best
RECURSIVE nearestFrom(_, _, _, _, _)
nearestFrom(colors, c, i, best, bestD) ==
  IF i >= Len(colors) THEN best
  ELSE IF SqDist(c, colors[i + 1]) < bestD
       THEN nearestFrom(colors, c, i + 1, i, SqDist(c, colors[i + 1]))
       ELSE nearestFrom(colors, c, i + 1, best, bestD)

\* 0-based index, as in the source
nearestColorIndex(p, c) == nearestFrom(p.colors, c, 0, 0, BestDInit)

\* p.colors[idx] >>> 0; past the end of the array it is undefined >>> 0 = 0
ColorAt(p, idx) ==
  IF idx < Len(p.colors) THEN p.colors[idx + 1] ELSE Transparent

\* src[i] = ((a & 255) << 24) | (rgb & 0x00ffffff)
WithAlpha(a, rgb) == <<a, rgb[2], rgb[3], rgb[4]>>

\* variant: the palette entry is stored with its own alpha
QuantizePixelWhole(p, c) ==
  IF c[1] = 0 THEN c
  ELSE ColorAt(p, nearestColorIndex(p, c))

\* one pixel of quantizeNearest
QuantizePixel(p, c) ==
  IF c[1] = 0 THEN c
  ELSE WithAlpha(c[1], ColorAt(p, nearestColorIndex(p, c)))

quantizeNearest(p, src) == [i \in 1..Len(src) |-> QuantizePixel(p, src[i])]

Bayer4 ==
  <<<<0, 8, 2, 10>>,
    <<12, 4, 14, 6>>,
    <<3, 11, 1, 9>>,
    <<15, 7, 13, 5>>>>

Bayer8 ==
  <<<<0, 32, 8, 40, 2, 34, 10, 42>>,
    <<48, 16, 56, 24, 50, 18, 58, 26>>,
    <<12, 44, 4, 36, 14, 46, 6, 38>>,
    <<60, 28, 52, 20, 62, 30, 54, 22>>,
    <<3, 35, 11, 43, 1, 33, 9, 41>>,
    <<51, 19, 59, 27, 49, 17, 57, 25>>,
    <<15, 47, 7, 39, 13, 45, 5, 37>>,
    <<63, 31, 55, 23, 61, 29, 53, 21>>>>

BayerStrength == 28

Clamp(lo, hi, v) == IF v < lo THEN lo ELSE IF v > hi THEN hi ELSE v

\* the thresholds and channel values at which the double r + n*strength
\* lands just below the integer that exact arithmetic gives
BayerRoundsBelow(size, t, ch) ==
  /\ size = 8
  /\ \/ t = 27 /\ ch \in 3..10
     \/ t = 36 /\ ch \in 0..6
     \/ t = 54 /\ ch \in 0..6

\* (ch + n*strength)|0 with n = t/(max-1) - 0.5, then clamped to 0..255
BayerChannel(size, t, ch) ==
  LET den == size * size - 1
      num == (2 * ch - BayerStrength) * den + 2 * BayerStrength * t
      trunc == IF num >= 0 THEN num \div (2 * den)
               ELSE 0 - ((0 - num) \div (2 * den))
  IN  Clamp(0, 255, trunc - (IF BayerRoundsBelow(size, t, ch) THEN 1 ELSE 0))

\* variant: the offset colour is stored as it is, without the palette lookup
BayerPixelUnmapped(p, size, x, y, c) ==
  IF c[1] = 0 THEN c
  ELSE LET m == IF size = 4 THEN Bayer4 ELSE Bayer8
           t == m[(y % size) + 1][(x % size) + 1]
       IN  <<c[1], BayerChannel(size, t, c[2]), BayerChannel(size, t, c[3]),
             BayerChannel(size, t, c[4])>>

BayerPixel(p, size, x, y, c) ==
  IF c[1] = 0 THEN c
  ELSE LET m == IF size = 4 THEN Bayer4 ELSE Bayer8
           t == m[(y % size) + 1][(x % size) + 1]
           idx == nearestColorIndex(p, <<255, BayerChannel(size, t, c[2]),
                                         BayerChannel(size, t, c[3]),
                                         BayerChannel(size, t, c[4])>>)
       IN  WithAlpha(c[1], ColorAt(p, idx))

applyBayer(src, w, h, p, size) ==
  [i \in 1..Len(src) |->
     IF i <= w * h
     THEN BayerPixel(p, size, (i - 1) % w, (i - 1) \div w, src[i])
     ELSE src[i]]

\* strengths are fixed-point in units of 1/StrUnit (0.15 is 30)
StrUnit == 200

DefaultJitterStrength == 30

Undefined == 0 - 1

Infinity == 2000000000

\* the second-nearest loop of applyPaletteMicroJitter from index j (0-based)
RECURSIVE secondFrom(_, _, _, _, _, _)
secondFrom(colors, c, nearestIdx, j, second, secondD) ==
  IF j >= Len(colors) THEN second
  ELSE IF j # nearestIdx /\ SqDist(c, colors[j + 1]) < secondD
       THEN secondFrom(colors, c, nearestIdx, j + 1, j, SqDist(c, colors[j + 1]))
       ELSE secondFrom(colors, c, nearestIdx, j + 1, second, secondD)

\* one channel: max(0, min(255, near + (second - near) * jitterAmount)) & 0xff
\* with jitterAmount = (f/65536 - 0.5) * strength
JitterChannel(near, second, f, strength) ==
  Clamp(0, 255,
        near + (((second - near) * (f - (Half \div 2)) * strength)
                  \div (Half * StrUnit)))

JitterPixel(p, c, f, strength) ==
  LET nearestIdx == nearestColorIndex(p, c)
      n == ColorAt(p, nearestIdx)
      s == ColorAt(p, secondFrom(p.colors, c, nearestIdx, 0, 0, Infinity))
  IN  <<c[1], JitterChannel(n[2], s[2], f, strength),
              JitterChannel(n[3], s[3], f, strength),
              JitterChannel(n[4], s[4], f, strength)>>

\* the stream after n calls of next()
RECURSIVE afterDraws(_, _)
afterDraws(t, n) == IF n = 0 THEN t ELSE afterDraws(Advance(t), n - 1)

\* the pixel loop: every non-transparent pixel draws one float, in index
\* order, so pixel i draws after as many calls as there are non-transparent
\* pixels before it
applyPaletteMicroJitter(src, p, rng, strength) ==
  [i \in 1..Len(src) |->
     IF src[i][1] = 0 THEN src[i]
     ELSE JitterPixel(p, src[i],
            nextFloat(afterDraws(rng,
              Cardinality({j \in 1..(i - 1) : src[j][1] # 0}))).f,
            strength)]

(***************************************************************************)
(* retro: enforceRetro.  ctx.retro.microJitter is FALSE when the field is  *)
(* absent, ctx.retro.microJitterStrength is Undefined when absent.         *)
(***************************************************************************)
\* hashStr('microJitter'), the label's hash as split('microJitter') computes it
MicroJitterHash == hashStr(<<109, 105, 99, 114, 111, 74, 105, 116, 116, 101, 114>>)

OutlineColor == argb(255, 20, 20, 20)

\* solid(x, y) on the snapshot
Solid(w, h, copy, x, y) ==
  /\ x >= 0 /\ y >= 0 /\ x < w /\ y < h
  /\ copy[y * w + x + 1][1] > 0

\* variant: the diagonal neighbours count as well
OutlineStageDiagonal(w, h, copy) ==
  [i \in 1..Len(copy) |->
     IF /\ i <= w * h
        /\ copy[i][1] = 0
        /\ \E dx, dy \in {-1, 0, 1} :
              /\ <<dx, dy>> # <<0, 0>>
              /\ Solid(w, h, copy, ((i - 1) % w) + dx, ((i - 1) \div w) + dy)
     THEN OutlineColor
     ELSE copy[i]]

OutlineStage(w, h, copy) ==
  [i \in 1..Len(copy) |->
     LET x == (i - 1) % w
         y == (i - 1) \div w
     IN  IF /\ i <= w * h
            /\ copy[i][1] = 0
            /\ \/ Solid(w, h, copy, x + 1, y)
               \/ Solid(w, h, copy, x - 1, y)
               \/ Solid(w, h, copy, x, y + 1)
               \/ Solid(w, h, copy, x, y - 1)
         THEN OutlineColor
         ELSE copy[i]]

\* lines 276-279 on the pixel array
JitterStep(ctx, data) ==
  IF ctx.retro.microJitter
  THEN applyPaletteMicroJitter(data, ctx.palette,
         splitHashed(ctx.rng, MicroJitterHash),
         IF ctx.retro.microJitterStrength = Undefined
         THEN DefaultJitterStrength
         ELSE ctx.retro.microJitterStrength)
  ELSE data

\* line 282
QuantizeStep(ctx, data) ==
  IF ctx.quantizer = "nearest" THEN quantizeNearest(ctx.palette, data) ELSE data

\* lines 285-288
DitherStep(ctx, data) ==
  IF ctx.dither # "none"
  THEN applyBayer(data, ctx.canvas.w, ctx.canvas.h, ctx.palette,
                  IF ctx.dither = "bayer4" THEN 4 ELSE 8)
  ELSE data

\* lines 291-306
OutlineStep(ctx, data) ==
  IF ctx.retro.outlineWidth > 0
  THEN OutlineStage(ctx.canvas.w, ctx.canvas.h, data)
  ELSE data

\* variant: the micro-jitter stage runs after quantisation and dithering
enforceRetroJitterLast(ctx) ==
  [ctx EXCEPT !.canvas.data =
     OutlineStep(ctx, JitterStep(ctx, DitherStep(ctx,
       QuantizeStep(ctx, ctx.canvas.data))))]

enforceRetro(ctx) ==
  [ctx EXCEPT !.canvas.data =
     OutlineStep(ctx, DitherStep(ctx, QuantizeStep(ctx,
       JitterStep(ctx, ctx.canvas.data))))]

(***************************************************************************)
(* similarityGuard: class SimilarityGuard.  A signature is the record      *)
(* [edgeHistogram, paletteUsage, params]; its timestamp (Date.now()) is    *)
(* written once and never read by the engine, and is left out.             *)
(***************************************************************************)
RECURSIVE SumSeq(_, _)
SumSeq(sq, i) == IF i > Len(sq) THEN 0 ELSE sq[i] + SumSeq(sq, i + 1)

\* the doubles 0.299*i + 0.587*i + 0.114*i that fall just below i
GreyRoundsBelow ==
  {1, 2, 4, 8, 11, 13, 16, 22, 26, 27, 32, 39, 44, 51, 52, 54, 57, 59, 61, 64,
   78, 81, 88, 91, 95, 101, 102, 104, 108, 114, 115, 118, 122, 127, 128, 143,
   149, 156, 157, 162, 169, 175, 176, 182, 183, 190, 195, 202, 203, 204, 208,
   209, 216, 223, 225, 228, 230, 235, 236, 239, 241, 244, 249, 251, 254}

\* Math.floor(0.299 r + 0.587 g + 0.114 b)
rgbToGrayscale(c) ==
  ((299 * c[2] + 587 * c[3] + 114 * c[4]) \div 1000)
    - (IF c[2] = c[3] /\ c[3] = c[4] /\ c[2] \in GreyRoundsBelow THEN 1 ELSE 0)

SobelX == <<0 - 1, 0, 1, 0 - 2, 0, 2, 0 - 1, 0, 1>>

SobelY == <<0 - 1, 0 - 2, 0 - 1, 0, 0, 0, 1, 2, 1>>

EdgeMagnitude == 30

\* one kernel tap: intensity * kernel[kernelIdx], 0 for a transparent pixel
Tap(cv, kernel, x, y, kx, ky) ==
  LET pixel == cv.data[(y + ky) * cv.w + (x + kx) + 1]
  IN  IF pixel[1] = 0 THEN 0
      ELSE rgbToGrayscale(pixel) * kernel[(ky + 1) * 3 + (kx + 1) + 1]

Gradient(cv, kernel, x, y) ==
  SumSeq([k \in 1..9 |-> Tap(cv, kernel, x, y, ((k - 1) % 3) - 1, ((k - 1) \div 3) - 1)], 1)

\* Math.floor(((atan2(gy, gx) + PI) / (2 PI)) * 8) % 8, by octant
AngleBin(gx, gy) ==
  CASE gy < 0 /\ gx < 0 /\ (0 - gy) < (0 - gx)  -> 0
    [] gy < 0 /\ gx < 0 /\ (0 - gy) >= (0 - gx) -> 1
    [] gy < 0 /\ gx >= 0 /\ gx < (0 - gy)       -> 2
    [] gy < 0 /\ gx >= 0 /\ gx >= (0 - gy)      -> 3
    [] gy >= 0 /\ gx > 0 /\ gy < gx             -> 4
    [] gy > 0 /\ gx > 0 /\ gy >= gx             -> 5
    [] gy > 0 /\ gx <= 0 /\ (0 - gx) < gy       -> 6
    [] gy > 0 /\ gx < 0 /\ (0 - gx) >= gy       -> 7
    [] OTHER                                    -> 0

\* the interior pixels that vote, as 1-based data indices
Interior(cv) ==
  {i \in 1..(cv.w * cv.h) :
     /\ (i - 1) % cv.w >= 1 /\ (i - 1) % cv.w < cv.w - 1
     /\ (i - 1) \div cv.w >= 1 /\ (i - 1) \div cv.w < cv.h - 1}

Votes(cv, i) ==
  LET gx == Gradient(cv, SobelX, (i - 1) % cv.w, (i - 1) \div cv.w)
      gy == Gradient(cv, SobelY, (i - 1) % cv.w, (i - 1) \div cv.w)
  IN  IF gx * gx + gy * gy > EdgeMagnitude * EdgeMagnitude
      THEN AngleBin(gx, gy)
      ELSE Undefined

computeEdgeHistogram(cv) ==
  LET vote == [i \in Interior(cv) |-> Votes(cv, i)]
      counts == [b \in 1..8 |-> Cardinality({i \in Interior(cv) : vote[i] = b - 1})]
      total == SumSeq(counts, 1)
  IN  [num |-> counts, den |-> IF total > 0 THEN total ELSE 1]

PaletteBins == 32

\* variant: the counts in the order of the colour values, largest first
RECURSIVE SortedCountsByColour(_, _)
SortedCountsByColour(counts, colours) ==
  IF colours = {} THEN <<>>
  ELSE LET key(c) == c[1] * 65536 + c[2] * 256 + c[3]
           top == CHOOSE c \in colours : \A d \in colours : key(d) <= key(c)
       IN  <<counts[top]>> \o SortedCountsByColour(counts, colours \ {top})

\* the counts of a colour-count map in non-increasing order
RECURSIVE SortedCounts(_, _)
SortedCounts(counts, colours) ==
  IF colours = {} THEN <<>>
  ELSE LET top == CHOOSE c \in colours : \A d \in colours : counts[d] <= counts[c]
       IN  <<counts[top]>> \o SortedCounts(counts, colours \ {top})

computePaletteUsage(cv) ==
  LET opaque == {i \in 1..Len(cv.data) : cv.data[i][1] # 0}
      rgbOf(i) == <<cv.data[i][2], cv.data[i][3], cv.data[i][4]>>
      colours == {rgbOf(i) : i \in opaque}
      colorCounts == [c \in colours |-> Cardinality({i \in opaque : rgbOf(i) = c})]
      sortedColors == SortedCounts(colorCounts, colours)
      totalPixels == Cardinality(opaque)
  IN  [num |-> [i \in 1..PaletteBins |->
                  IF i <= Len(sortedColors) THEN sortedColors[i] ELSE 0],
       den |-> IF totalPixels > 0 THEN totalPixels ELSE 1]

generateSignature(cv, params) ==
  [edgeHistogram |-> computeEdgeHistogram(cv),
   paletteUsage |-> computePaletteUsage(cv),
   params |-> params]

Min(a, b) == IF a <= b THEN a ELSE b

\* variant: two zero-norm histograms compare as identical
compareHistogramsEmptyAlike(hist1, hist2) ==
  LET minLen == Min(Len(hist1.num), Len(hist2.num))
      dotProduct == SumSeq([i \in 1..minLen |-> hist1.num[i] * hist2.num[i]], 1)
      norm1 == SumSeq([i \in 1..minLen |-> hist1.num[i] * hist1.num[i]], 1)
      norm2 == SumSeq([i \in 1..minLen |-> hist2.num[i] * hist2.num[i]], 1)
  IN  IF norm1 = 0 /\ norm2 = 0 THEN [num |-> 1, den |-> 1]
      ELSE IF norm1 = 0 \/ norm2 = 0 THEN [num |-> 0, den |-> 1]
      ELSE [num |-> dotProduct * dotProduct, den |-> norm1 * norm2]

\* compareHistograms: the cosine similarity s >= 0 is returned as the
\* fraction num/den = s^2 (the two denominators of the bins cancel);
\* a zero norm returns 0
compareHistograms(hist1, hist2) ==
  LET minLen == Min(Len(hist1.num), Len(hist2.num))
      dotProduct == SumSeq([i \in 1..minLen |-> hist1.num[i] * hist2.num[i]], 1)
      norm1 == SumSeq([i \in 1..minLen |-> hist1.num[i] * hist1.num[i]], 1)
      norm2 == SumSeq([i \in 1..minLen |-> hist2.num[i] * hist2.num[i]], 1)
  IN  IF norm1 = 0 \/ norm2 = 0 THEN [num |-> 0, den |-> 1]
      ELSE [num |-> dotProduct * dotProduct, den |-> norm1 * norm2]

\* similarity > threshold, the threshold being the fraction th.num/th.den >= 0;
\* the comparison is exact, the source's doubles can differ from it only for a
\* similarity within rounding error of the threshold
Exceeds(sim, th) == sim.num * th.den * th.den > th.num * th.num * sim.den

\* the test of isSimilar against one history entry
SimilarTo(cfg, signature, existing) ==
  /\ Exceeds(compareHistograms(signature.edgeHistogram, existing.edgeHistogram),
             cfg.edgeThreshold)
  /\ Exceeds(compareHistograms(signature.paletteUsage, existing.paletteUsage),
             cfg.paletteThreshold)

\* the loop of isSimilar from entry k; it returns at the first match
RECURSIVE similarFrom(_, _, _, _)
similarFrom(hist, cfg, signature, k) ==
  IF k > Len(hist) THEN FALSE
  ELSE IF SimilarTo(cfg, signature, hist[k]) THEN TRUE
  ELSE similarFrom(hist, cfg, signature, k + 1)

\* variant: the loop starts at the second entry
isSimilarSkipFirst(hist, cfg, signature) == similarFrom(hist, cfg, signature, 2)

\* variant: the edge match and the colour match may come from different entries
isSimilarMixed(hist, cfg, signature) ==
  /\ \E k \in 1..Len(hist) :
       Exceeds(compareHistograms(signature.edgeHistogram, hist[k].edgeHistogram),
               cfg.edgeThreshold)
  /\ \E k \in 1..Len(hist) :
       Exceeds(compareHistograms(signature.paletteUsage, hist[k].paletteUsage),
               cfg.paletteThreshold)

isSimilar(hist, cfg, signature) == similarFrom(hist, cfg, signature, 1)

\* variant: on overflow the newest entry is dropped
addToHistoryDropNewest(hist, cfg, signature) ==
  LET pushed == Append(hist, signature)
  IN  IF Len(pushed) > cfg.maxHistory THEN SubSeq(pushed, 1, Len(pushed) - 1) ELSE pushed

addToHistory(hist, cfg, signature) ==
  LET pushed == Append(hist, signature)
  IN  IF Len(pushed) > cfg.maxHistory THEN Tail(pushed) ELSE pushed

\* numeric parameters are fixed-point in units of 1/PUnit; with a float
\* f/65536 the nudge (f/65536 - 0.5) * 0.2 is exactly f - 32768 units
PUnit == 327680

\* the number NaN as the value of a numeric parameter
NaN == 0 - Infinity

\* Math.max(0, Math.min(1, value + nudge)); NaN + nudge is NaN, and
\* Math.min and Math.max return NaN when an argument is NaN
NudgeEntry(e, f) ==
  IF e.type = "number"
  THEN IF e.v = NaN THEN e
       ELSE [e EXCEPT !.v = Clamp(0, PUnit, e.v + (f - (Half \div 2)))]
  ELSE e

\* the loop over Object.entries(params) from entry i; numeric entries draw
RECURSIVE nudgeFrom(_, _, _)
nudgeFrom(params, t, i) ==
  IF i > Len(params) THEN [params |-> params, rng |-> t]
  ELSE IF params[i].type = "number"
       THEN nudgeFrom([params EXCEPT ![i] = NudgeEntry(params[i], nextFloat(t).f)],
                      nextFloat(t).t, i + 1)
       ELSE nudgeFrom(params, t, i + 1)

\* returns the nudged map and the stream as the draws left it
suggestParamNudges(params, rng) == nudgeFrom(params, rng, 1)

DefaultConfig ==
  [maxHistory |-> 50,
   edgeThreshold |-> [num |-> 17, den |-> 20],
   paletteThreshold |-> [num |-> 9, den |-> 10],
   maxRetries |-> 5]

(***************************************************************************)
(* Content generators (SpriteModule.generate / finalize).  A parameter map *)
(* is the sequence of its entries [key, type, v] in insertion order; a     *)
(* boolean is v = 0 or 1.                                                  *)
(***************************************************************************)
HasParam(params, key) == \E i \in 1..Len(params) : params[i].key = key

ParamOf(params, key) == params[CHOOSE i \in 1..Len(params) : params[i].key = key]

\* params[key] || dflt
ParamOr(params, key, dflt) ==
  IF HasParam(params, key) /\ ParamOf(params, key).v \notin {0, NaN}
  THEN ParamOf(params, key).v
  ELSE dflt

Max(a, b) == IF a >= b THEN a ELSE b

White == argb(255, 255, 255, 255)

\* the generator that always draws the same pattern: one white pixel at the
\* centre of the canvas
GenerateDeterministic(ctx, params) ==
  [ctx EXCEPT !.canvas = CanvasSet(ctx.canvas, ctx.canvas.w \div 2, ctx.canvas.h \div 2, White)]

\* the mock generator: a grid of grey pixels whose pitch and intensity
\* follow params.density
GenerateMock(ctx, params) ==
  LET cv == ctx.canvas
      size == Min(cv.w, cv.h)
      margin == size \div 5
      density == ParamOr(params, "density", PUnit \div 2)
      step == Max(1, (4 * (PUnit - density)) \div PUnit)
      colorIntensity == (density * 255) \div PUnit
      color == argb(255, colorIntensity, colorIntensity, colorIntensity)
      onGrid(v) == v >= margin /\ v < size - margin /\ (v - margin) % step = 0
  IN  [ctx EXCEPT !.canvas.data =
         [i \in 1..(cv.w * cv.h) |->
            IF onGrid((i - 1) % cv.w) /\ onGrid((i - 1) \div cv.w)
            THEN color ELSE cv.data[i]]]

ScatterPoints == 3

\* the cloud colour of the planet module: alpha 240, level 240
Cloud == argb(240, 240, 240, 240)

\* a stream-driven generator: ScatterPoints cloud pixels at drawn positions
RECURSIVE scatterFrom(_, _)
scatterFrom(ctx, n) ==
  IF n = 0 THEN ctx
  ELSE LET dx == nextInt(ctx.rng, ctx.canvas.w)
           dy == nextInt(dx.t, ctx.canvas.h)
       IN  scatterFrom([ctx EXCEPT !.canvas = CanvasSet(ctx.canvas, dx.v, dy.v, Cloud),
                                   !.rng = dy.t],
                       n - 1)

GenerateScatter(ctx, params) == scatterFrom(ctx, ScatterPoints)

Generate(m, ctx, params) ==
  CASE m = "deterministic" -> GenerateDeterministic(ctx, params)
    [] m = "mock"          -> GenerateMock(ctx, params)
    [] m = "scatter"       -> GenerateScatter(ctx, params)

HasFinalize(m) == m = "scatter"

\* the finalize hook of the built-in modules: it rewrites
\* ctx.retro.microJitterStrength when ctx.retro.microJitter is set
Finalize(m, ctx, params) ==
  IF HasFinalize(m) /\ ctx.retro.microJitter /\ ParamOr(params, "bands", 0) # 0
  THEN LET baseStrength == IF ctx.retro.microJitterStrength = Undefined
                           THEN DefaultJitterStrength
                           ELSE ctx.retro.microJitterStrength
       IN  [ctx EXCEPT !.retro.microJitterStrength = Min(40, (baseStrength * 13) \div 10)]
  ELSE ctx

(***************************************************************************)
(* State                                                                   *)
(***************************************************************************)
VARIABLES
  history,        \* SimilarityGuard.history
  config,         \* SimilarityGuard.config
  pc,             \* position of the runModule call: idle, loop, standard, done
  mod,            \* runModule argument: the sprite module
  opts,           \* runModule argument: the request
  palette,        \* runModule local
  rng,            \* runModule local: the parent stream
  canvas,         \* runModule local: the buffer that is returned
  finalParams,    \* runModule local
  retryCount,     \* runModule local
  generateCalls,  \* number of mod.generate invocations of the current call
  attempts,       \* the guarded attempts of the current call, in order
  stages,         \* the stages of the last generation of the current call, in order
  startHistory,   \* the guard history when the current call began
  prev,           \* the previous completed runModule call, if it was the last operation
  calls,          \* number of runModule calls begun
  added,          \* the signatures given to addToHistory since the last reset
  query,          \* the last isSimilar call and its result
  nudge,          \* the last suggestParamNudges call and its result
  Palettes,       \* palette.ts: the registry of all palettes, by id
  customPalettes, \* palette.ts: the custom palettes, by id
  op,             \* the last call of a library function: arguments and result
  streams,        \* the random streams a caller holds, by name
  source,         \* the buffer a caller blits from
  exported        \* the export a caller holds: the text as JSON.parse reads it,
                  \* and the custom palettes it was made of

vars ==
  <<history, config, pc, mod, opts, palette, rng, canvas, finalParams,
    retryCount, generateCalls, attempts, stages, startHistory, prev, calls,
    added, query, nudge, Palettes, customPalettes, op, streams, source,
    exported>>

callVars ==
  <<pc, mod, opts, palette, rng, canvas, finalParams, retryCount,
    generateCalls, attempts, stages, startHistory, prev, calls>>

testVars == <<added, query, nudge>>

libVars == <<Palettes, customPalettes, op, streams, source, exported>>

(***************************************************************************)
(* Bounds and inputs                                                       *)
(***************************************************************************)
CanvasSize == 5

MaxCalls == 2

Density(tenths) == [key |-> "density", type |-> "number", v |-> (tenths * PUnit) \div 10]

Flag(key, b) == [key |-> key, type |-> "boolean", v |-> IF b THEN 1 ELSE 0]

ModuleIds == {"deterministic", "mock", "scatter"}

\* the seed, retro settings and parameter map of a request
Settings ==
  {[seed |-> <<0, 12345>>, paletteName |-> "NES_13", dither |-> "none",
    quantizer |-> "nearest", outline |-> 0, params |-> <<>>,
    microJitter |-> TRUE, microJitterStrength |-> 50],
   [seed |-> <<0, 12346>>, paletteName |-> "GB_4", dither |-> "bayer4",
    quantizer |-> "nearest", outline |-> 1, params |-> <<Density(7)>>,
    microJitter |-> FALSE, microJitterStrength |-> Undefined],
   [seed |-> <<0, 12345>>, paletteName |-> "NONEXISTENT", dither |-> "bayer8",
    quantizer |-> "none", outline |-> 2,
    params |-> <<Flag("clouds", TRUE), Density(6)>>,
    microJitter |-> FALSE, microJitterStrength |-> Undefined],
   [seed |-> <<0, 12346>>, paletteName |-> "SNES_32", dither |-> "none",
    quantizer |-> "none", outline |-> 0, params |-> <<Density(7)>>,
    microJitter |-> FALSE, microJitterStrength |-> Undefined]}

Requests ==
  {[seed |-> r.seed, size |-> CanvasSize, paletteName |-> r.paletteName,
    dither |-> r.dither, quantizer |-> r.quantizer, outline |-> r.outline,
    params |-> r.params, microJitter |-> r.microJitter,
    microJitterStrength |-> r.microJitterStrength, useSimilarityGuard |-> g] :
     r \in Settings, g \in BOOLEAN}

NoCall == [mod |-> "none"]

NoOpts == [seed |-> <<0, 0>>]

NoQuery == [asked |-> FALSE]

NoNudge == [asked |-> FALSE]

NoOp == [name |-> "none"]

NoExport == [doc |-> <<"none">>, palettes |-> <<>>]

(***************************************************************************)
(* index.ts: runModule                                                     *)
(***************************************************************************)
maxRetries == 5

\* `attempt_${retryCount}`
AttemptLabel(n) == <<97, 116, 116, 101, 109, 112, 116, 95, 48 + n>>

\* the EngineContext runModule builds around a canvas and a stream
Context(cv, stream) ==
  [canvas |-> cv, rng |-> stream, palette |-> palette,
   dither |-> opts.dither, quantizer |-> opts.quantizer,
   retro |-> [outlineWidth |-> opts.outline, microJitter |-> FALSE,
              microJitterStrength |-> Undefined]]

\* one stage of a generation: the micro-jitter settings of the context when
\* the stage is called, and the strength it leaves
StageRecord(name, before, after) ==
  [stage |-> name, microJitter |-> before.retro.microJitter,
   strength |-> before.retro.microJitterStrength,
   adjusted |-> after.retro.microJitterStrength]

\* mod.generate(ctx, p); enforceRetro(ctx); if (mod.finalize) mod.finalize(ctx, p):
\* the calls in the order they are made
Stages(m, ctx, p) ==
  LET generated == Generate(m, ctx, p)
      retroed == enforceRetro(generated)
  IN  <<StageRecord("generate", ctx, generated),
        StageRecord("enforceRetro", generated, retroed)>>
      \o IF HasFinalize(m)
         THEN <<StageRecord("finalize", retroed, Finalize(m, retroed, p))>>
         ELSE <<>>

\* mod.generate(ctx, p); enforceRetro(ctx); if (mod.finalize) mod.finalize(ctx, p)
Produce(ctx, p) == Finalize(mod, enforceRetro(Generate(mod, ctx, p)), p)

\* no runModule call has been made
CallIdle ==
  /\ pc = "idle"
  /\ mod = "none"
  /\ opts = NoOpts
  /\ palette = BuiltinPalettes["NES_13"]
  /\ rng = <<0, 0>>
  /\ canvas = createPixelCanvas(0, 0)
  /\ finalParams = <<>>
  /\ retryCount = 0
  /\ generateCalls = 0
  /\ attempts = <<>>
  /\ stages = <<>>
  /\ startHistory = <<>>
  /\ prev = NoCall
  /\ calls = 0

TestIdle ==
  /\ added = <<>>
  /\ query = NoQuery
  /\ nudge = NoNudge

\* the palette module as loaded, no library call made, no stream held
LibIdle ==
  /\ Palettes = BuiltinPalettes
  /\ customPalettes = <<>>
  /\ op = NoOp
  /\ streams = <<>>
  /\ source = createPixelCanvas(0, 0)
  /\ exported = NoExport

Init ==
  /\ history = <<>>
  /\ config = DefaultConfig
  /\ CallIdle
  /\ TestIdle
  /\ LibIdle

\* variant: the stream of the previous call is carried over
EntryStreamCarried(o) == rng

\* line 23: let rng = mulberry32(opts.seed >>> 0)
EntryStream(o) == mulberry32(o.seed)

\* variant: the retry loop is entered whatever the request says
EntryPositionGuarded(o) == IF 0 < maxRetries THEN "loop" ELSE "standard"

\* line 31: while (opts.useSimilarityGuard && retryCount < maxRetries), at entry
EntryPosition(o) ==
  IF o.useSimilarityGuard /\ 0 < maxRetries THEN "loop" ELSE "standard"

\* lines 21-31: entry of runModule(mod, opts)
RunModule(m, o) ==
  /\ pc = "idle"
  /\ calls < MaxCalls
  /\ calls' = calls + 1
  /\ mod' = m
  /\ opts' = o
  /\ palette' = PaletteLookup(Palettes, o.paletteName)
  /\ rng' = EntryStream(o)
  /\ canvas' = createPixelCanvas(o.size, o.size)
  /\ finalParams' = o.params
  /\ retryCount' = 0
  /\ generateCalls' = 0
  /\ attempts' = <<>>
  /\ stages' = <<>>
  /\ startHistory' = history
  /\ pc' = EntryPosition(o)
  /\ UNCHANGED <<history, config, prev, testVars, libVars>>

\* variant: the accepted attempt is not copied into the returned canvas
AcceptUncopied(ctx, signature) ==
  /\ history' = addToHistory(history, config, signature)
  /\ added' = Append(added, signature)
  /\ canvas' = canvas
  /\ pc' = "done"
  /\ UNCHANGED <<finalParams, rng, retryCount>>

\* lines 52-57: the attempt is not similar
Accept(ctx, signature) ==
  /\ history' = addToHistory(history, config, signature)
  /\ added' = Append(added, signature)
  /\ canvas' = blit(canvas, ctx.canvas, 0, 0)
  /\ pc' = "done"
  /\ UNCHANGED <<finalParams, rng, retryCount>>

\* variant: a rejected attempt is recorded in the history
RejectRecorded(signature) ==
  LET nudged == suggestParamNudges(finalParams, rng)
  IN  /\ finalParams' = nudged.params
      /\ rng' = nudged.rng
      /\ retryCount' = retryCount + 1
      /\ pc' = IF retryCount + 1 < maxRetries THEN "loop" ELSE "standard"
      /\ history' = addToHistory(history, config, signature)
      /\ UNCHANGED <<added, canvas>>

\* lines 59-61: the attempt is similar
Reject(signature) ==
  LET nudged == suggestParamNudges(finalParams, rng)
  IN  /\ finalParams' = nudged.params
      /\ rng' = nudged.rng
      /\ retryCount' = retryCount + 1
      /\ pc' = IF retryCount + 1 < maxRetries THEN "loop" ELSE "standard"
      /\ UNCHANGED <<history, added, canvas>>

\* lines 32-62: one iteration of the guarded retry loop
Attempt ==
  /\ pc = "loop"
  /\ retryCount < maxRetries
  /\ \E ctx \in {Produce(Context(createPixelCanvas(opts.size, opts.size),
                                   split(rng, AttemptLabel(retryCount))),
                           finalParams)} :
       \E signature \in {generateSignature(ctx.canvas, finalParams)} :
         \E similar \in {isSimilar(history, config, signature)} :
           /\ generateCalls' = generateCalls + 1
           /\ stages' = Stages(mod, Context(createPixelCanvas(opts.size, opts.size),
                                             split(rng, AttemptLabel(retryCount))),
                                finalParams)
           /\ attempts' = Append(attempts, [data |-> ctx.canvas.data,
                                            signature |-> signature,
                                            similar |-> similar])
           /\ IF ~similar THEN Accept(ctx, signature) ELSE Reject(signature)
  /\ UNCHANGED <<config, mod, opts, palette, startHistory, prev, calls, query, nudge, libVars>>

\* some pixel of the buffer is not transparent
Visible(data) == \E i \in 1..Len(data) : data[i][1] > 0

\* the retro stages read ctx.palette.colors: quantizeNearest and applyBayer do
\* so for the first pixel that is not transparent
ReadsPalette(ctx) ==
  /\ ctx.quantizer = "nearest" \/ ctx.dither # "none"
  /\ Visible(ctx.canvas.data)

\* the palette is undefined and the generation of lines 75-76 reads it
Throws ==
  /\ palette = NoPalette
  /\ ReadsPalette(Generate(mod, Context(canvas, rng), finalParams))

\* line 76 ends the call with a TypeError; the caller is not followed further
Throw ==
  /\ pc = "standard"
  /\ Throws
  /\ pc' = "threw"
  /\ UNCHANGED <<history, config, mod, opts, palette, rng, canvas, finalParams,
                 retryCount, generateCalls, attempts, stages, startHistory, prev,
                 calls, testVars, libVars>>

\* lines 65-85: standard generation (no guard, or the loop ran out)
Standard ==
  /\ pc = "standard"
  /\ ~Throws
  /\ \E ctx \in {Produce(Context(canvas, rng), finalParams)} :
       /\ canvas' = ctx.canvas
       /\ rng' = ctx.rng
       /\ generateCalls' = generateCalls + 1
       /\ stages' = Stages(mod, Context(canvas, rng), finalParams)
       /\ IF opts.useSimilarityGuard
          THEN \E signature \in {generateSignature(ctx.canvas, finalParams)} :
                 /\ history' = addToHistory(history, config, signature)
                 /\ added' = Append(added, signature)
          ELSE UNCHANGED <<history, added>>
  /\ pc' = "done"
  /\ UNCHANGED <<config, mod, opts, palette, finalParams, retryCount,
                 attempts, startHistory, prev, calls, query, nudge, libVars>>

\* the caller receives the canvas
Return ==
  /\ pc = "done"
  /\ prev' = [mod |-> mod, opts |-> opts, data |-> canvas.data]
  /\ pc' = "idle"
  /\ UNCHANGED <<history, config, mod, opts, palette, rng, canvas, finalParams,
                 retryCount, generateCalls, attempts, stages, startHistory, calls,
                 testVars, libVars>>

\* globalSimilarityGuard.reset() between calls
Reset ==
  /\ pc = "idle"
  /\ history' = <<>>
  /\ added' = <<>>
  /\ prev' = NoCall
  /\ UNCHANGED <<config, pc, mod, opts, palette, rng, canvas, finalParams,
                 retryCount, generateCalls, attempts, stages, startHistory, calls,
                 query, nudge, libVars>>

Next ==
  \/ \E m \in ModuleIds, o \in Requests : RunModule(m, o)
  \/ Attempt
  \/ Standard
  \/ Return
  \/ Reset

Spec == Init /\ [][Next]_vars

(***************************************************************************)
(* The SimilarityGuard class driven directly, as its tests drive it: a     *)
(* guard constructed with a configuration, hand-drawn canvases,            *)
(* generateSignature, addToHistory, isSimilar, suggestParamNudges, reset.  *)
(***************************************************************************)
MaxAdds == 4

Red == argb(255, 255, 0, 0)

Green == argb(255, 0, 255, 0)

\* a green of the same grey level as Red
DarkGreen == argb(255, 0, 130, 0)

Brown == argb(255, 128, 64, 32)

\* the pixels a test draws: a diagonal, an anti-diagonal, a filled square
Marks(shape, size, x, y) ==
  CASE shape = "diagonal"     -> x = y
    [] shape = "antidiagonal" -> y = size - 1 - x
    [] shape = "square"       -> x >= 1 /\ x < size - 1 /\ y >= 1 /\ y < size - 1
    [] shape = "nothing"      -> FALSE

\* the colour a test draws a pixel in
Paint(colouring, x, y) ==
  CASE colouring = "red"       -> Red
    [] colouring = "green"     -> Green
    [] colouring = "alternate" -> IF x % 2 = 0 THEN Red ELSE DarkGreen
    [] colouring = "brown"     -> Brown

\* the canvas after canvas.set(x, y, colour) for every pixel of the shape
Drawn(size, shape, colouring) ==
  [w |-> size, h |-> size,
   data |-> [i \in 1..(size * size) |->
               IF Marks(shape, size, (i - 1) % size, (i - 1) \div size)
               THEN Paint(colouring, (i - 1) % size, (i - 1) \div size)
               ELSE Transparent]]

EmptyCanvas == Drawn(CanvasSize, "nothing", "red")

TestCanvases ==
  {EmptyCanvas,
   Drawn(CanvasSize, "diagonal", "red"),
   Drawn(CanvasSize, "diagonal", "alternate"),
   Drawn(CanvasSize, "antidiagonal", "green"),
   Drawn(CanvasSize, "square", "brown")}

TestSignatures == {generateSignature(cv, <<>>) : cv \in TestCanvases}

EmptySignature == generateSignature(EmptyCanvas, <<>>)

Threshold(n, d) == [num |-> n, den |-> d]

\* new SimilarityGuard(config): the defaults overridden by the given fields
GuardConfig(maxHistory, edgeThreshold, paletteThreshold) ==
  [DefaultConfig EXCEPT !.maxHistory = maxHistory,
                        !.edgeThreshold = edgeThreshold,
                        !.paletteThreshold = paletteThreshold]

Configs ==
  {GuardConfig(3, DefaultConfig.edgeThreshold, DefaultConfig.paletteThreshold),
   GuardConfig(2, Threshold(4, 5), Threshold(17, 20)),
   GuardConfig(1, Threshold(0, 1), Threshold(0, 1)),
   GuardConfig(2, Threshold(1, 1), Threshold(1, 1))}

Num(key, v) == [key |-> key, type |-> "number", v |-> v]

Str(key, code) == [key |-> key, type |-> "string", v |-> code]

NudgeInputs ==
  {<<>>,
   <<Num("featureDensity", PUnit \div 2), Flag("clouds", TRUE),
     Num("someNumber", (8 * PUnit) \div 10)>>,
   <<Num("size", 16 * PUnit), Flag("bands", FALSE)>>,
   <<Num("low", 0), Num("high", PUnit), Str("archetype", 1)>>,
   <<Str("archetype", 2), Num("offset", 0 - ((3 * PUnit) \div 10)),
     Num("ringChance", PUnit \div 20)>>,
   <<Num("speed", NaN), Num("density", PUnit \div 2)>>}

NudgeSeeds == {<<0, 0>>, <<0, 1>>, <<0, 12345>>, <<1, 33229>>}

InitGuard ==
  /\ history = <<>>
  /\ config \in Configs
  /\ CallIdle
  /\ TestIdle
  /\ LibIdle

\* guard.addToHistory(signature)
GuardAddToHistory(signature) ==
  /\ Len(added) < MaxAdds
  /\ history' = addToHistory(history, config, signature)
  /\ added' = Append(added, signature)
  /\ query' = NoQuery
  /\ nudge' = NoNudge
  /\ UNCHANGED <<config, callVars, libVars>>

\* guard.reset()
GuardReset ==
  /\ history' = <<>>
  /\ added' = <<>>
  /\ query' = NoQuery
  /\ nudge' = NoNudge
  /\ UNCHANGED <<config, callVars, libVars>>

\* guard.isSimilar(signature)
GuardIsSimilar(signature) ==
  /\ query' = [asked |-> TRUE, signature |-> signature,
               result |-> isSimilar(history, config, signature)]
  /\ nudge' = NoNudge
  /\ UNCHANGED <<history, config, added, callVars, libVars>>

NextGuard ==
  \/ \E signature \in TestSignatures : GuardAddToHistory(signature)
  \/ GuardReset
  \/ \E signature \in TestSignatures : GuardIsSimilar(signature)

SpecGuard == InitGuard /\ [][NextGuard]_vars

(***************************************************************************)
(* suggestParamNudges on its own: a first call on a parameter map with a   *)
(* fresh stream, then further calls that feed the nudged map and the same  *)
(* stream object back in, as the retry loop of runModule does.             *)
(***************************************************************************)
MaxNudges == 5

InitNudge ==
  /\ history = <<>>
  /\ config = DefaultConfig
  /\ CallIdle
  /\ TestIdle
  /\ LibIdle

\* guard.suggestParamNudges(params, rng) on the given map and stream
Suggest(params, stream, n) ==
  /\ nudge' = [asked |-> TRUE, params |-> params, rng |-> stream, count |-> n,
               result |-> suggestParamNudges(params, stream)]
  /\ UNCHANGED <<history, config, added, query, callVars, libVars>>

SuggestFirst(params, seed) ==
  /\ ~nudge.asked
  /\ Suggest(params, mulberry32(seed), 1)

SuggestAgain ==
  /\ nudge.asked
  /\ nudge.count < MaxNudges
  /\ Suggest(nudge.result.params, nudge.result.rng, nudge.count + 1)

NextNudge ==
  \/ \E params \in NudgeInputs, seed \in NudgeSeeds : SuggestFirst(params, seed)
  \/ SuggestAgain

SpecNudge == InitNudge /\ [][NextNudge]_vars

(***************************************************************************)
(* The palette stages called directly, as palette.test.ts and              *)
(* retro.test.ts call them: a caller fills a buffer, picks a palette and   *)
(* calls quantizeNearest, applyBayer, enforceRetro and nearestColorIndex.  *)
(***************************************************************************)
RetroWidth == 4

RetroHeight == 3

MaxOps == 2

\* the buffers a caller has filled, by what they hold
RetroPixel(kind, x, y) ==
  CASE kind = "empty" -> Transparent
    [] kind = "dot" -> IF x = 1 /\ y = 1 THEN argb(255, 255, 0, 0) ELSE Transparent
    [] kind = "mixed" ->
         (CASE x = 0 /\ y = 0 -> argb(255, 128, 128, 128)
            [] x = 1 /\ y = 1 -> argb(0, 18, 52, 86)
            [] x = 2 /\ y = 1 -> argb(128, 64, 64, 64)
            [] x = RetroWidth - 1 /\ y = RetroHeight - 1 -> argb(255, 0, 0, 0)
            [] x = RetroWidth - 1 /\ y = 0 -> argb(1, 255, 255, 255)
            [] OTHER -> Transparent)
    [] kind = "greys" -> argb(255, 20 * (x + y * RetroWidth), 20 * (x + y * RetroWidth),
                              20 * (x + y * RetroWidth))

RetroCanvases ==
  {[w |-> RetroWidth, h |-> RetroHeight,
    data |-> [i \in 1..(RetroWidth * RetroHeight) |->
                RetroPixel(kind, (i - 1) % RetroWidth, (i - 1) \div RetroWidth)]] :
     kind \in {"empty", "dot", "mixed", "greys"}}

\* a palette with no colour, as addCustomPalette accepts it
EmptyPalette == [name |-> "EMPTY", colors |-> <<>>, maxColors |-> 1]

\* a palette with a repeated colour, entries that are not opaque and two
\* colours at the same distance from (100, 0, 100)
TiesPalette ==
  [name |-> "TIES",
   colors |-> <<argb(0, 10, 10, 10), argb(255, 200, 0, 0), argb(128, 10, 10, 10),
                argb(255, 0, 0, 200)>>,
   maxColors |-> 4]

RetroPalettes ==
  {BuiltinPalettes["GB_4"], BuiltinPalettes["NES_13"], EmptyPalette, TiesPalette}

\* the colours nearestColorIndex is asked about
ProbeColors ==
  {argb(255, 100, 0, 100), argb(0, 100, 0, 100), argb(255, 10, 10, 10),
   argb(77, 250, 250, 250)}

\* the enforceRetro settings called with: dither, quantizer, outlineWidth,
\* microJitter: every combination with the nearest quantizer, and the outline
\* widths without quantizer
RetroSettings ==
  {<<"none", "none", 0, FALSE>>, <<"none", "none", 1, FALSE>>,
   <<"none", "none", 2, FALSE>>}
  \cup {<<d, "nearest", o, j>> :
          d \in {"none", "bayer4", "bayer8"}, o \in {0, 1, 2}, j \in BOOLEAN}

OpCount == IF op.name = "none" THEN 0 ELSE op.count

retroFrame ==
  <<history, config, pc, mod, opts, rng, finalParams, retryCount, generateCalls,
    attempts, stages, startHistory, prev, calls, testVars, Palettes, customPalettes,
    streams, source, exported>>

InitRetro ==
  /\ history = <<>>
  /\ config = DefaultConfig
  /\ CallIdle
  /\ TestIdle
  /\ LibIdle

\* the caller fills a buffer and picks a palette
Fill(cv, p) ==
  /\ op.name = "none"
  /\ canvas' = cv
  /\ palette' = p
  /\ op' = [name |-> "fill", count |-> 0]
  /\ UNCHANGED retroFrame

\* some buffer is filled and fewer than MaxOps calls were made on it
Callable == op.name # "none" /\ OpCount < MaxOps

\* quantizeNearest(palette, canvas.data)
QuantizeCall ==
  /\ Callable
  /\ canvas' = [canvas EXCEPT !.data = quantizeNearest(palette, canvas.data)]
  /\ op' = [name |-> "quantizeNearest", count |-> OpCount + 1, before |-> canvas.data]
  /\ UNCHANGED <<palette, retroFrame>>

\* applyBayer(canvas.data, canvas.w, canvas.h, palette, size)
BayerCall(size) ==
  /\ Callable
  /\ canvas' = [canvas EXCEPT !.data = applyBayer(canvas.data, canvas.w, canvas.h,
                                                  palette, size)]
  /\ op' = [name |-> "applyBayer", count |-> OpCount + 1, before |-> canvas.data,
            size |-> size]
  /\ UNCHANGED <<palette, retroFrame>>

\* enforceRetro(ctx) on a context around the buffer
EnforceRetroCall(dither, quantizer, outlineWidth, microJitter) ==
  /\ Callable
  /\ canvas' = enforceRetro([canvas |-> canvas, rng |-> mulberry32(<<0, 12345>>),
                             palette |-> palette, dither |-> dither,
                             quantizer |-> quantizer,
                             retro |-> [outlineWidth |-> outlineWidth,
                                        microJitter |-> microJitter,
                                        microJitterStrength |-> Undefined]]).canvas
  /\ op' = [name |-> "enforceRetro", count |-> OpCount + 1, before |-> canvas.data,
            dither |-> dither, quantizer |-> quantizer,
            outlineWidth |-> outlineWidth, microJitter |-> microJitter]
  /\ UNCHANGED <<palette, retroFrame>>

\* nearestColorIndex(palette, c)
NearestCall(c) ==
  /\ Callable
  /\ op' = [name |-> "nearestColorIndex", count |-> OpCount + 1, color |-> c,
            result |-> nearestColorIndex(palette, c)]
  /\ UNCHANGED <<canvas, palette, retroFrame>>

NextRetro ==
  \/ \E cv \in RetroCanvases, p \in RetroPalettes : Fill(cv, p)
  \/ QuantizeCall
  \/ \E size \in {4, 8} : BayerCall(size)
  \/ \E r \in RetroSettings : EnforceRetroCall(r[1], r[2], r[3], r[4])
  \/ \E c \in ProbeColors : NearestCall(c)

SpecRetro == InitRetro /\ [][NextRetro]_vars

(***************************************************************************)
(* The pixel buffer on its own: a caller makes a buffer and a source       *)
(* buffer and calls set, get and blit with coordinates and offsets inside  *)
(* and outside the buffer.  All call sites of blit pass a buffer other     *)
(* than the destination.                                                   *)
(***************************************************************************)
BufWidth == 3
BufHeight == 2
MaxBufOps == 2

\* coordinates on and beyond every edge, and inside
BufCoords ==
  {<<-1, 0>>, <<0, -1>>, <<BufWidth, 0>>, <<0, BufHeight>>, <<-1, -1>>,
   <<0, 0>>, <<1, 0>>, <<BufWidth - 1, BufHeight - 1>>}

\* colours as a caller passes them: argb() results and 0
BufColors ==
  {argbInt32(255, 128, 64, 32), argbInt32(64, 1, 2, 3), Transparent}

\* 2x2 source buffers: full, with transparent pixels of zero and non-zero RGB
BufSources ==
  {[w |-> 2, h |-> 2,
    data |-> <<argb(255, 255, 0, 0), argb(255, 0, 255, 0),
               argb(128, 0, 0, 255), argb(1, 9, 9, 9)>>],
   [w |-> 2, h |-> 2,
    data |-> <<argb(255, 255, 0, 0), Transparent,
               argb(0, 7, 7, 7), argb(200, 5, 6, 7)>>]}

BufOffsets ==
  {<<0, 0>>, <<-1, -1>>, <<1, 0>>, <<BufWidth - 1, BufHeight - 1>>,
   <<BufWidth, 0>>, <<0, -2>>}

bufFrame ==
  <<history, config, pc, mod, opts, palette, rng, finalParams, retryCount,
    generateCalls, attempts, stages, startHistory, prev, calls, testVars, Palettes,
    customPalettes, streams, exported>>

InitCanvas ==
  /\ history = <<>>
  /\ config = DefaultConfig
  /\ CallIdle
  /\ TestIdle
  /\ LibIdle

\* createPixelCanvas(BufWidth, BufHeight) and a source buffer
Create(src) ==
  /\ op.name = "none"
  /\ canvas' = createPixelCanvas(BufWidth, BufHeight)
  /\ source' = src
  /\ op' = [name |-> "create", count |-> 0]
  /\ UNCHANGED bufFrame

BufCallable == op.name # "none" /\ op.count < MaxBufOps

\* canvas.set(x, y, c)
SetCall(x, y, c) ==
  /\ BufCallable
  /\ canvas' = CanvasSet(canvas, x, y, c)
  /\ op' = [name |-> "set", count |-> op.count + 1, x |-> x, y |-> y, c |-> c,
            before |-> canvas.data]
  /\ UNCHANGED <<source, bufFrame>>

\* canvas.get(x, y); the call before it is kept when it was a set
GetCall(x, y) ==
  /\ BufCallable
  /\ op' = [name |-> "get", count |-> op.count + 1, x |-> x, y |-> y,
            result |-> CanvasGet(canvas, x, y),
            last |-> IF op.name = "set" THEN <<op.x, op.y, op.c>> ELSE <<>>]
  /\ UNCHANGED <<canvas, source, bufFrame>>

\* canvas.blit(source, dx, dy)
BlitCall(dx, dy) ==
  /\ BufCallable
  /\ canvas' = blit(canvas, source, dx, dy)
  /\ op' = [name |-> "blit", count |-> op.count + 1, dx |-> dx, dy |-> dy,
            before |-> canvas.data, src |-> source]
  /\ UNCHANGED <<source, bufFrame>>

NextCanvas ==
  \/ \E src \in BufSources : Create(src)
  \/ \E xy \in BufCoords, c \in BufColors : SetCall(xy[1], xy[2], c)
  \/ \E xy \in BufCoords : GetCall(xy[1], xy[2])
  \/ \E d \in BufOffsets : BlitCall(d[1], d[2])

SpecCanvas == InitCanvas /\ [][NextCanvas]_vars

(***************************************************************************)
(* The seeded stream on its own: a caller makes two streams from one seed  *)
(* and calls nextFloat, nextInt and split on them and on their children,   *)
(* in any interleaving.  Every mulberry32 closure has a t of its own, so   *)
(* a stream is an entry of its own in streams.  An entry keeps, besides    *)
(* t, how the stream came about (origin), the calls made on it and the     *)
(* values its draws returned.                                              *)
(***************************************************************************)
MaxStreamOps == 4

StreamSeeds == {<<0, 12345>>, <<65535, 65535>>}

\* split() and split('x')
StreamLabels == {<<>>, <<120>>}

\* the arguments of nextInt
IntRanges == {6}

streamsFrame ==
  <<history, config, callVars, testVars, Palettes, customPalettes, op, source,
    exported>>

InitStreams ==
  /\ history = <<>>
  /\ config = DefaultConfig
  /\ CallIdle
  /\ TestIdle
  /\ LibIdle

\* a stream fresh from mulberry32
NewStream(t, origin) ==
  [t |-> t, origin |-> origin, calls |-> <<>>, results |-> <<>>]

\* the number of calls made on the streams so far
RECURSIVE CallsFrom(_, _)
CallsFrom(strs, i) ==
  IF i > Len(strs) THEN 0 ELSE Len(strs[i].calls) + CallsFrom(strs, i + 1)

\* variant: the streams made from one seed share their t
StoreShared(strs, s, t) ==
  [i \in 1..Len(strs) |->
     IF strs[i].origin = strs[s].origin THEN [strs[i] EXCEPT !.t = t]
     ELSE strs[i]]

\* line 10: t += 0x6D2B79F5 writes the t of the closure that was called
Store(strs, s, t) == [strs EXCEPT ![s].t = t]

\* the entry of stream s after a call that returned value
Logged(strs, s, call, value) ==
  [strs EXCEPT ![s].calls = Append(@, call), ![s].results = Append(@, value)]

\* variant: split advances the parent
AfterSplitAdvanced(t) == Add32(t, Weyl)

\* line 19: split reads the parent's t and leaves it as it is
AfterSplit(t) == t

\* rng1 = mulberry32(seed); rng2 = mulberry32(seed)
SeedTwins(seed) ==
  /\ streams = <<>>
  /\ streams' = <<NewStream(mulberry32(seed), <<"seed", seed>>),
                  NewStream(mulberry32(seed), <<"seed", seed>>)>>
  /\ UNCHANGED streamsFrame

StreamCallable(s) == s \in 1..Len(streams) /\ CallsFrom(streams, 1) < MaxStreamOps

\* streams[s].nextFloat(): the value is word / 2^32, kept as the word
NextFloatCall(s) ==
  /\ StreamCallable(s)
  /\ streams' = Logged(Store(streams, s, next(streams[s].t).t), s,
                       <<"nextFloat">>, next(streams[s].t).x)
  /\ UNCHANGED streamsFrame

\* streams[s].nextInt(n)
NextIntCall(s, n) ==
  /\ StreamCallable(s)
  /\ streams' = Logged(Store(streams, s, nextInt(streams[s].t, n).t), s,
                       <<"nextInt", n>>, nextInt(streams[s].t, n).v)
  /\ UNCHANGED streamsFrame

\* streams[s].split(label): the child is a new entry
SplitCall(s, label) ==
  /\ StreamCallable(s)
  /\ streams' =
       Append([Store(streams, s, AfterSplit(streams[s].t))
                 EXCEPT ![s].calls = Append(@, <<"split", label>>)],
              NewStream(split(streams[s].t, label),
                        <<"split", streams[s].origin, streams[s].calls, label>>))
  /\ UNCHANGED streamsFrame

NextStreams ==
  \/ \E seed \in StreamSeeds : SeedTwins(seed)
  \/ \E s \in 1..Len(streams) : NextFloatCall(s)
  \/ \E s \in 1..Len(streams), n \in IntRanges : NextIntCall(s, n)
  \/ \E s \in 1..Len(streams), label \in StreamLabels : SplitCall(s, label)

SpecStreams == InitStreams /\ [][NextStreams]_vars

(***************************************************************************)
(* palette.ts: importCustomPalettes.  The argument is carried as the value *)
(* JSON.parse makes of it, or as unparsable.  A JSON value is a tagged     *)
(* tuple; a field that is absent reads as undefined.  An object is the     *)
(* sequence of its <<key, value>> entries, except a palette record, which  *)
(* is carried as its three fields.  The keys of a colour object are        *)
(* sequences of character codes; a colour is a number, carried as the      *)
(* tuple of its bytes.  The registries hold the own entries, by id, with   *)
(* ids that are ordinary property names.                                   *)
(***************************************************************************)
JUndefined == <<"undefined">>

JNull == <<"null">>

JString(s) == <<"string", s>>

JNumber(n) == <<"number", n>>

JArray(elements) == <<"array", elements>>

JObject(entries) == <<"object", entries>>

\* !v is false
Truthy(v) ==
  CASE v[1] \in {"undefined", "null"} -> FALSE
    [] v[1] = "string" -> v[2] # ""
    [] v[1] = "number" -> v[2] # 0
    [] OTHER -> TRUE

\* parseInt of a key: the number its leading decimal digits spell, or NaN
RECURSIVE digitsFrom(_, _, _)
digitsFrom(codes, i, n) ==
  IF i > Len(codes) \/ codes[i] \notin 48..57
  THEN IF i = 1 THEN NaN ELSE n
  ELSE digitsFrom(codes, i + 1, n * 10 + codes[i] - 48)

parseInt(codes) == digitsFrom(codes, 1, 0)

\* the property name of an array index k >= 0
RECURSIVE DecimalOf(_)
DecimalOf(k) ==
  IF k < 10 THEN <<48 + k>> ELSE DecimalOf(k \div 10) \o <<48 + (k % 10)>>

IsNumber(k) == k # NaN

\* the position of k in an ascending list
RECURSIVE InsertAt(_, _, _)
InsertAt(sorted, k, i) ==
  IF i > Len(sorted) \/ k < sorted[i]
  THEN SubSeq(sorted, 1, i - 1) \o <<k>> \o SubSeq(sorted, i, Len(sorted))
  ELSE InsertAt(sorted, k, i + 1)

\* sort((a, b) => a - b)
RECURSIVE numericSort(_, _)
numericSort(ks, i) ==
  IF i > Len(ks) THEN <<>>
  ELSE InsertAt(numericSort(ks, i + 1), ks[i], 1)

\* colors[k] on a colour object
RECURSIVE PropertyFrom(_, _, _)
PropertyFrom(entries, key, i) ==
  IF i > Len(entries) THEN JUndefined
  ELSE IF entries[i][1] = key THEN entries[i][2]
  ELSE PropertyFrom(entries, key, i + 1)

\* one element of new Uint32Array(values)
ElementOf(v) == IF v[1] = "number" THEN Uint32(v[2]) ELSE Transparent

\* lines 109-113: the keys parsed, filtered and sorted
SortedKeys(entries) ==
  numericSort(SelectSeq([i \in 1..Len(entries) |-> parseInt(entries[i][1])],
                        IsNumber), 1)

\* lines 114: the values under the sorted keys
KeyedValues(entries, ks) ==
  [i \in 1..Len(ks) |-> ElementOf(PropertyFrom(entries, DecimalOf(ks[i]), 1))]

\* lines 100-117: colors is of a format that is converted; JSON.parse makes
\* no typed array, so the branch of lines 104-106 is never taken
Convertible(colors) == colors[1] \in {"array", "object"}

\* lines 100-114: the colour array of a convertible colors
ColorsArray(colors) ==
  IF colors[1] = "array"
  THEN [i \in 1..Len(colors[2]) |-> ElementOf(colors[2][i])]
  ELSE KeyedValues(colors[2], SortedKeys(colors[2]))

\* lines 91-97: the record is an object with the required properties
Wellformed(record) ==
  /\ record[1] = "object"
  /\ Truthy(record[2].name)
  /\ Truthy(record[2].colors)
  /\ record[2].maxColors[1] = "number"

\* lines 127-131
Register(st, id, p) ==
  [Palettes |-> [k \in DOMAIN st.Palettes \cup {id} |->
                   IF k = id THEN p ELSE st.Palettes[k]],
   customPalettes |-> [k \in DOMAIN st.customPalettes \cup {id} |->
                         IF k = id THEN p ELSE st.customPalettes[k]],
   importedCount |-> st.importedCount + 1]

\* lines 120-131 for a record whose colour array is arr
Validate(st, id, record, arr) ==
  IF Len(arr) > 0 /\ record[2].maxColors[2] > 0
  THEN Register(st, id, [name |-> record[2].name[2], colors |-> arr,
                         maxColors |-> record[2].maxColors[2]])
  ELSE st

\* variant: the record is stored before it is validated
RecordStepEager(st, id, record) ==
  IF ~Wellformed(record) THEN st
  ELSE IF ~Convertible(record[2].colors) THEN st
  ELSE [Register(st, id, [name |-> record[2].name[2],
                          colors |-> ColorsArray(record[2].colors),
                          maxColors |-> record[2].maxColors[2]])
          EXCEPT !.importedCount =
            Validate(st, id, record, ColorsArray(record[2].colors)).importedCount]

\* lines 91-132: the body of the loop
RecordStep(st, id, record) ==
  IF ~Wellformed(record) THEN st
  ELSE IF ~Convertible(record[2].colors) THEN st
  ELSE Validate(st, id, record, ColorsArray(record[2].colors))

\* variant: the loop ends at the first record that is not registered
RECURSIVE importUntilMalformed(_, _, _)
importUntilMalformed(entries, i, st) ==
  IF i > Len(entries) THEN st
  ELSE IF RecordStep(st, entries[i][1], entries[i][2]) = st THEN st
  ELSE importUntilMalformed(entries, i + 1,
                            RecordStep(st, entries[i][1], entries[i][2]))

\* line 90: the loop over Object.entries(imported), from entry i
RECURSIVE importFrom(_, _, _)
importFrom(entries, i, st) ==
  IF i > Len(entries) THEN st
  ELSE importFrom(entries, i + 1, RecordStep(st, entries[i][1], entries[i][2]))

\* Object.entries(imported) of an object; a number has none
EntriesOf(imported) == IF imported[1] = "object" THEN imported[2] ELSE <<>>

\* line 135 and the registries as the loop left them
Imported(st) ==
  [result |-> st.importedCount > 0, Palettes |-> st.Palettes,
   customPalettes |-> st.customPalettes]

\* unparsable text returns false at line 85; Object.entries(null) throws and
\* the catch at 136-139 returns false, before any record was looked at
importCustomPalettes(imported, registry, custom) ==
  IF imported[1] \in {"unparsable", "null"}
  THEN [result |-> FALSE, Palettes |-> registry, customPalettes |-> custom]
  ELSE Imported(importFrom(EntriesOf(imported), 1,
                  [Palettes |-> registry, customPalettes |-> custom,
                   importedCount |-> 0]))

(***************************************************************************)
(* The palette registry on its own: a caller imports serialized maps, one  *)
(* after the other.                                                        *)
(***************************************************************************)
MaxImports == 2

KeyX == <<120>>

\* a record with a colour array
Sunset ==
  JObject([name |-> JString("Sunset"),
           colors |-> JArray(<<JNumber(argb(255, 255, 128, 0)),
                               JNumber(argb(255, 64, 0, 64))>>),
           maxColors |-> JNumber(4)])

\* a record as exportCustomPalettes writes it, with the keys "10", "2", "x"
\* and "0" in this order
Dusk ==
  JObject([name |-> JString("Dusk"),
           colors |-> JObject(<<<<DecimalOf(10), JNumber(argb(255, 0, 0, 30))>>,
                                <<DecimalOf(2), JNumber(argb(255, 0, 0, 20))>>,
                                <<KeyX, JNumber(argb(255, 9, 9, 9))>>,
                                <<DecimalOf(0), JNumber(argb(255, 0, 0, 10))>>>>),
           maxColors |-> JNumber(2)])

NoName == {JUndefined, JNull, JString("")}

NoColors ==
  {JUndefined, JNull, JArray(<<>>), JString("ff8000"), JNumber(5),
   JObject(<<<<KeyX, JNumber(argb(255, 9, 9, 9))>>>>)}

NoMaxColors == {JUndefined, JString("4"), JNumber(0), JNumber(0 - 1)}

\* records that lack one of the three requirements, and values that are no
\* record at all
Malformed ==
  {JObject([Sunset[2] EXCEPT !.name = v]) : v \in NoName}
    \cup {JObject([Sunset[2] EXCEPT !.colors = v]) : v \in NoColors}
    \cup {JObject([Sunset[2] EXCEPT !.maxColors = v]) : v \in NoMaxColors}
    \cup {JNull, JNumber(7), JString("Sunset")}

\* what the caller passes, after JSON.parse
Documents ==
  {<<"unparsable">>, JNull, JNumber(7), JObject(<<>>),
   JObject(<<<<"NES_13", Dusk>>>>)}
    \cup {JObject(<<<<"sunset", r>>>>) : r \in Malformed \cup {Sunset, Dusk}}
    \cup {JObject(<<<<"sunset", Sunset>>, <<"NES_13", r>>, <<"dusk", Dusk>>>>) :
            r \in Malformed}

importFrame == <<history, config, callVars, testVars, streams, source, exported>>

InitImport ==
  /\ history = <<>>
  /\ config = DefaultConfig
  /\ CallIdle
  /\ TestIdle
  /\ LibIdle

ImportCount == IF op.name = "none" THEN 0 ELSE op.count

\* importCustomPalettes(jsonString)
ImportCall(doc) ==
  /\ ImportCount < MaxImports
  /\ \E r \in {importCustomPalettes(doc, Palettes, customPalettes)} :
       /\ Palettes' = r.Palettes
       /\ customPalettes' = r.customPalettes
       /\ op' = [name |-> "importCustomPalettes", count |-> ImportCount + 1,
                 doc |-> doc, result |-> r.result,
                 before |-> <<Palettes, customPalettes>>]
  /\ UNCHANGED importFrame

NextImport == \E doc \in Documents : ImportCall(doc)

SpecImport == InitImport /\ [][NextImport]_vars

(***************************************************************************)
(* palette.ts: addCustomPalette, removeCustomPalette, exportCustomPalettes.*)
(* A name is a string; Spelling gives the character codes of the names     *)
(* and identifiers in use, so that the replace of addCustomPalette works   *)
(* on the characters.                                                      *)
(***************************************************************************)
Spelling ==
  [s \in {"Sunset", "Dusk Sky", "Dusk_Sky", "NES_13", "Void"} |->
     CASE s = "Sunset"   -> <<83, 117, 110, 115, 101, 116>>
       [] s = "Dusk Sky" -> <<68, 117, 115, 107, 32, 83, 107, 121>>
       [] s = "Dusk_Sky" -> <<68, 117, 115, 107, 95, 83, 107, 121>>
       [] s = "NES_13"   -> <<78, 69, 83, 95, 49, 51>>
       [] s = "Void"     -> <<86, 111, 105, 100>>]

\* [a-zA-Z0-9_]
WordChar(c) == c \in (97..122) \cup (65..90) \cup (48..57) \cup {95}

\* palette.name.replace(/[^a-zA-Z0-9_]/g, '_')
Sanitize(name) ==
  CHOOSE s \in DOMAIN Spelling :
    Spelling[s] = [i \in 1..Len(Spelling[name]) |->
                     IF WordChar(Spelling[name][i]) THEN Spelling[name][i] ELSE 95]

\* map[id] = p
Put(map, id, p) ==
  [k \in DOMAIN map \cup {id} |-> IF k = id THEN p ELSE map[k]]

\* delete map[id]
Delete(map, id) == [k \in DOMAIN map \ {id} |-> map[k]]

\* lines 37-41
addCustomPalette(p, registry, custom) ==
  [Palettes |-> Put(registry, Sanitize(p.name), p),
   customPalettes |-> Put(custom, Sanitize(p.name), p)]

\* variant: only the custom map is cleared
removeCustomOnly(id, registry, custom) ==
  IF id \in DOMAIN custom
  THEN [Palettes |-> registry, customPalettes |-> Delete(custom, id)]
  ELSE [Palettes |-> registry, customPalettes |-> custom]

\* lines 46-51; a stored palette is an object, so customPalettes[id] is truthy
\* exactly when id is a key
removeCustomPalette(id, registry, custom) ==
  IF id \in DOMAIN custom
  THEN [Palettes |-> Delete(registry, id), customPalettes |-> Delete(custom, id)]
  ELSE [Palettes |-> registry, customPalettes |-> custom]

\* variant: the colours are written as a plain list, last colour left out
StringifyColorsShort(colors) ==
  JArray([i \in 1..(Len(colors) - 1) |-> JNumber(colors[i])])

\* JSON.stringify of a Uint32Array, read back: an object with the keys
\* "0", "1", ... and the elements as numbers
StringifyColors(colors) ==
  JObject([i \in 1..Len(colors) |-> <<DecimalOf(i - 1), JNumber(colors[i])>>])

\* JSON.stringify of a palette, read back
StringifyPalette(p) ==
  JObject([name |-> JString(p.name), colors |-> StringifyColors(p.colors),
           maxColors |-> JNumber(p.maxColors)])

\* the entries of the custom map, one after the other
RECURSIVE EntriesFrom(_, _)
EntriesFrom(custom, ids) ==
  IF ids = {} THEN <<>>
  ELSE <<<<CHOOSE id \in ids : TRUE,
           StringifyPalette(custom[CHOOSE id \in ids : TRUE])>>>>
         \o EntriesFrom(custom, ids \ {CHOOSE id \in ids : TRUE})

\* lines 70-72: JSON.stringify(customPalettes, null, 2), as JSON.parse reads it
exportCustomPalettes(custom) == JObject(EntriesFrom(custom, DOMAIN custom))

(***************************************************************************)
(* The registry in use: a caller adds, removes, exports and imports custom *)
(* palettes and, in between, calls runModule with a palette identifier     *)
(* that is not registered.                                                 *)
(***************************************************************************)
MaxRegistryOps == 6

\* palettes as a caller passes them to addCustomPalette
SunsetPalette ==
  [name |-> "Sunset",
   colors |-> <<argb(255, 255, 128, 0), argb(255, 64, 0, 64)>>, maxColors |-> 4]

DuskPalette ==
  [name |-> "Dusk Sky",
   colors |-> <<argb(255, 0, 0, 10), argb(0, 0, 0, 20), argb(255, 0, 0, 30)>>,
   maxColors |-> 3]

\* a palette with the name of a built-in one
ShadowPalette ==
  [name |-> "NES_13", colors |-> <<argb(255, 0, 0, 0)>>, maxColors |-> 1]

\* a palette without colours
VoidPalette == [name |-> "Void", colors |-> <<>>, maxColors |-> 0]

AddedPalettes == {SunsetPalette, DuskPalette, ShadowPalette, VoidPalette}

RemovedIds == {"Sunset", "Dusk_Sky", "NES_13", "Dusk Sky"}

\* a map written by hand, its key in lower case
HandWritten == JObject(<<<<"sunset", Sunset>>>>)

\* runModule with a palette that is not registered
UnregisteredRequests ==
  {[seed |-> <<0, 12345>>, size |-> CanvasSize, paletteName |-> "NONEXISTENT",
    dither |-> "none", quantizer |-> "nearest", outline |-> 0,
    params |-> <<>>, microJitter |-> FALSE, microJitterStrength |-> Undefined,
    useSimilarityGuard |-> FALSE]}

registryFrame == <<history, config, callVars, testVars, streams, source>>

InitRegistry ==
  /\ history = <<>>
  /\ config = DefaultConfig
  /\ CallIdle
  /\ TestIdle
  /\ LibIdle

RegistryCallable == pc = "idle" /\ ImportCount < MaxRegistryOps

\* addCustomPalette(p)
AddCall(p) ==
  /\ RegistryCallable
  /\ Palettes' = addCustomPalette(p, Palettes, customPalettes).Palettes
  /\ customPalettes' = addCustomPalette(p, Palettes, customPalettes).customPalettes
  /\ op' = [name |-> "addCustomPalette", count |-> ImportCount + 1,
            palette |-> p, before |-> <<Palettes, customPalettes>>]
  /\ UNCHANGED <<exported, registryFrame>>

\* removeCustomPalette(id)
RemoveCall(id) ==
  /\ RegistryCallable
  /\ Palettes' = removeCustomPalette(id, Palettes, customPalettes).Palettes
  /\ customPalettes' = removeCustomPalette(id, Palettes, customPalettes).customPalettes
  /\ op' = [name |-> "removeCustomPalette", count |-> ImportCount + 1,
            id |-> id, before |-> <<Palettes, customPalettes>>]
  /\ UNCHANGED <<exported, registryFrame>>

\* text = exportCustomPalettes()
ExportCall ==
  /\ RegistryCallable
  /\ exported' = [doc |-> exportCustomPalettes(customPalettes),
                  palettes |-> customPalettes]
  /\ op' = [name |-> "exportCustomPalettes", count |-> ImportCount + 1,
            before |-> <<Palettes, customPalettes>>]
  /\ UNCHANGED <<Palettes, customPalettes, registryFrame>>

\* importCustomPalettes(text), text the export held or written by hand
RegistryImportCall(doc) ==
  /\ RegistryCallable
  /\ doc # NoExport.doc
  /\ \E r \in {importCustomPalettes(doc, Palettes, customPalettes)} :
       /\ Palettes' = r.Palettes
       /\ customPalettes' = r.customPalettes
       /\ op' = [name |-> "importCustomPalettes", count |-> ImportCount + 1,
                 doc |-> doc, result |-> r.result,
                 before |-> <<Palettes, customPalettes>>]
  /\ UNCHANGED <<exported, registryFrame>>

NextRegistry ==
  \/ \E o \in UnregisteredRequests : RunModule("mock", o)
  \/ Standard
  \/ Throw
  \/ Return
  \/ \E p \in AddedPalettes : AddCall(p)
  \/ \E id \in RemovedIds : RemoveCall(id)
  \/ ExportCall
  \/ \E doc \in {exported.doc, HandWritten} : RegistryImportCall(doc)

SpecRegistry == InitRegistry /\ [][NextRegistry]_vars

(***************************************************************************)
(* The colour-usage histogram on its own: a caller draws the same pattern  *)
(* of colour numbers in two buffers, each with its own colours, and takes  *)
(* the signature of both.  Colour number 0 is a transparent pixel.         *)
(***************************************************************************)
UsageLen == 4

\* every pattern of UsageLen pixels over three colours and transparency, and
\* one pattern with more colours than the histogram has bins
UsagePatterns ==
  [1..UsageLen -> 0..3]
  \cup {[i \in 1..(PaletteBins + 5) |->
           IF i <= PaletteBins + 2 THEN i ELSE (i - PaletteBins) \div 2]}

\* one-to-one assignments of RGB values to colour numbers
UsageColors ==
  {[k \in 1..(PaletteBins + 2) |-> <<k, 2 * k, 0>>],
   [k \in 1..(PaletteBins + 2) |-> <<255 - k, 0, k>>],
   [k \in 1..(PaletteBins + 2) |-> <<0, 0, PaletteBins + 3 - k>>]}

\* the buffer of a pattern: alpha 255 and 128 alternate on the visible
\* pixels, a transparent pixel keeps the RGB of the first colour
Painted(pattern, colors) ==
  [w |-> Len(pattern), h |-> 1,
   data |-> [i \in 1..Len(pattern) |->
               IF pattern[i] = 0
               THEN <<0, colors[1][1], colors[1][2], colors[1][3]>>
               ELSE <<IF i % 2 = 1 THEN 255 ELSE 128, colors[pattern[i]][1],
                      colors[pattern[i]][2], colors[pattern[i]][3]>>]]

usageFrame ==
  <<history, config, pc, mod, opts, palette, rng, finalParams, retryCount,
    generateCalls, attempts, stages, startHistory, prev, calls, testVars, Palettes,
    customPalettes, streams, exported>>

InitUsage ==
  /\ history = <<>>
  /\ config = DefaultConfig
  /\ CallIdle
  /\ TestIdle
  /\ LibIdle

\* the caller draws the pattern in two buffers
PaintBoth(pattern, first, second) ==
  /\ op.name = "none"
  /\ canvas' = Painted(pattern, first)
  /\ source' = Painted(pattern, second)
  /\ op' = [name |-> "paint", pattern |-> pattern]
  /\ UNCHANGED usageFrame

\* generateSignature on both buffers, and the comparison of isSimilar on
\* their colour histograms
SignaturesCall ==
  /\ op.name = "paint"
  /\ \E one \in {generateSignature(canvas, <<>>).paletteUsage} :
       \E two \in {generateSignature(source, <<>>).paletteUsage} :
         op' = [name |-> "generateSignature", pattern |-> op.pattern,
                first |-> one, second |-> two,
                similarity |-> compareHistograms(one, two)]
  /\ UNCHANGED <<canvas, source, usageFrame>>

NextUsage ==
  \/ \E pattern \in UsagePatterns, first, second \in UsageColors :
       PaintBoth(pattern, first, second)
  \/ SignaturesCall

SpecUsage == InitUsage /\ [][NextUsage]_vars

(***************************************************************************)
(* Properties of runModule                                                 *)
(***************************************************************************)
Returned == pc = "done"

\* the call that is returning repeats the previous call's module and request
RepeatsPrevious == Returned /\ prev.mod = mod /\ prev.opts = opts

\* C1 as stated: two consecutive runModule calls with identical module and
\* request (same seed, params, palette, dither, quantizer, outline and guard
\* setting) return identical pixel arrays
C1_DeterminismAnyGuard == RepeatsPrevious => canvas.data = prev.data

\* C1: two consecutive runModule calls with identical module and request and
\* the similarity guard disabled return identical pixel arrays
C1_DeterminismUnguarded ==
  (RepeatsPrevious /\ ~opts.useSimilarityGuard) => canvas.data = prev.data

C1_Witness ==
  /\ RepeatsPrevious
  /\ ~opts.useSimilarityGuard
  /\ mod = "scatter"
  /\ \E i \in 1..Len(canvas.data) : canvas.data[i][1] # 0

\* the non-transparent pixels of a pixel array, the rest cleared
OpaquePart(data) ==
  [i \in 1..Len(data) |-> IF data[i][1] # 0 THEN data[i] ELSE Transparent]

Guarded == pc # "idle" /\ opts.useSimilarityGuard

\* C2: in guard mode the first attempt reported not similar is accepted at
\* once: while the call is still running every attempt so far was similar,
\* and once an attempt is not similar it is the last attempt generated, its
\* signature is the one appended to the history and the returned buffer holds
\* exactly its non-transparent pixels
C2_AcceptFirstDissimilar ==
  Guarded =>
    /\ \A i \in 1..Len(attempts) : ~attempts[i].similar => i = Len(attempts)
    /\ pc \in {"loop", "standard"} => \A i \in 1..Len(attempts) : attempts[i].similar
    /\ (attempts # <<>> /\ ~attempts[Len(attempts)].similar) =>
         /\ Returned
         /\ generateCalls = Len(attempts)
         /\ history = Append(startHistory, attempts[Len(attempts)].signature)
         /\ canvas.data = OpaquePart(attempts[Len(attempts)].data)

C2_Witness ==
  /\ Guarded /\ Returned
  /\ Len(attempts) > 1
  /\ ~attempts[Len(attempts)].similar
  /\ \E i \in 1..Len(canvas.data) : canvas.data[i][1] # 0

\* every attempt up to the retry cap was reported similar
Exhausted ==
  /\ Guarded /\ Returned
  /\ Len(attempts) = maxRetries
  /\ \A i \in 1..Len(attempts) : attempts[i].similar

\* C3: when every attempt up to the retry cap is reported similar, the
\* returned buffer is pixel-identical to the buffer of the last attempt
C3_ExhaustionReturnsLastAttempt ==
  Exhausted => canvas.data = attempts[maxRetries].data

\* C4: a guard-mode call appends exactly one signature, the signature of the
\* buffer it returns; nothing is appended while attempts are being rejected
C4_OneSignaturePerCall ==
  Guarded =>
    /\ pc \in {"loop", "standard"} => history = startHistory
    /\ Returned =>
         history = Append(startHistory, generateSignature(canvas, finalParams))

C4_Witness ==
  /\ Guarded /\ Returned
  /\ attempts # <<>>
  /\ startHistory # <<>>
  /\ \E i \in 1..Len(canvas.data) : canvas.data[i][1] \notin {0, 255}

\* C5: a guard-mode call invokes the content generator at most maxRetries
\* times
C5_RetryCap == Guarded => generateCalls <= maxRetries

\* C6: when the history the call starts from holds a signature similar to
\* the output of a generator that ignores stream and parameters, the call
\* has invoked the generator more than once by the time it returns
C6_RetryEngaged ==
  ( /\ Guarded /\ Returned
    /\ mod = "deterministic"
    /\ attempts # <<>>
    /\ \E k \in 1..Len(startHistory) :
         SimilarTo(config, attempts[1].signature, startHistory[k]) )
  => generateCalls > 1

C6_Witness ==
  /\ Guarded /\ Returned
  /\ mod = "deterministic"
  /\ attempts # <<>>
  /\ SumSeq(attempts[1].signature.edgeHistogram.num, 1) > 0
  /\ SumSeq(attempts[1].signature.paletteUsage.num, 1) > 0
  /\ \E k \in 1..Len(startHistory) :
       SimilarTo(config, attempts[1].signature, startHistory[k])
  /\ generateCalls > 1

(***************************************************************************)
(* Properties of the SimilarityGuard class                                 *)
(***************************************************************************)
EdgeMatch(signature, e) ==
  Exceeds(compareHistograms(signature.edgeHistogram, e.edgeHistogram),
          config.edgeThreshold)

ColourMatch(signature, e) ==
  Exceeds(compareHistograms(signature.paletteUsage, e.paletteUsage),
          config.paletteThreshold)

\* C7: isSimilar(sig) is true exactly when one single history entry matches
\* sig on the edge histogram and on the colour histogram; matches spread over
\* two entries do not count, and the empty history gives false
C7_SameEntryRule ==
  query.asked =>
    (query.result <=>
       \E k \in 1..Len(history) :
          /\ EdgeMatch(query.signature, history[k])
          /\ ColourMatch(query.signature, history[k]))

\* an edge match with one entry, a colour match with another, no entry with both
C7_Witness ==
  /\ query.asked
  /\ ~query.result
  /\ \E j, k \in 1..Len(history) :
       /\ j # k
       /\ EdgeMatch(query.signature, history[j])
       /\ ~ColourMatch(query.signature, history[j])
       /\ ColourMatch(query.signature, history[k])
       /\ ~EdgeMatch(query.signature, history[k])

\* C8: the signature of an all-transparent buffer is never reported similar,
\* whatever the history holds and whatever thresholds in [0,1] are configured
C8_ZeroNormNeverSimilar ==
  (query.asked /\ query.signature = EmptySignature) => ~query.result

\* thresholds 0, and the history holds an empty and a non-empty signature
C8_Witness ==
  /\ query.asked
  /\ query.signature = EmptySignature
  /\ ~query.result
  /\ config.edgeThreshold.num = 0
  /\ config.paletteThreshold.num = 0
  /\ \E k \in 1..Len(history) : history[k] = EmptySignature

C8_WitnessNonEmpty ==
  /\ query.asked
  /\ query.signature = EmptySignature
  /\ ~query.result
  /\ config.edgeThreshold.num = 0
  /\ \E k \in 1..Len(history) : history[k] # EmptySignature

LastN(s, n) == SubSeq(s, Len(s) - n + 1, Len(s))

\* C9: the history is the last min(k, maxHistory) signatures added since the
\* most recent reset, in insertion order
C9_BoundedFifo ==
  history = LastN(added, Min(Len(added), config.maxHistory))

\* more adds than the capacity, the oldest signature no longer held
C9_Witness ==
  /\ Len(added) > config.maxHistory
  /\ Len(history) = config.maxHistory
  /\ Len(history) > 1
  /\ \A k \in 1..Len(history) : history[k] # added[1]
  /\ history[1] # history[Len(history)]

\* the stream after k draws
RECURSIVE After(_, _)
After(stream, k) == IF k = 0 THEN stream ELSE After(nextFloat(stream).t, k - 1)

\* the number of numeric entries among the first i entries of a map
Numerics(params, i) == Cardinality({j \in 1..i : params[j].type = "number"})

InUnitRange(v) == v # NaN /\ 0 <= v /\ v <= PUnit

\* the largest perturbation, 0.1
MaxNudge == PUnit \div 10

\* C10: suggestParamNudges returns a map with the same keys in which every
\* numeric entry lies in [0,1], being its old value plus a perturbation of
\* magnitude at most 0.1 drawn from the stream, clamped, and every
\* non-numeric entry keeps its value
C10_NudgeClamped ==
  nudge.asked =>
    LET old == nudge.params
        new == nudge.result.params
    IN  /\ Len(new) = Len(old)
        /\ \A i \in 1..Len(old) :
             /\ new[i].key = old[i].key
             /\ new[i].type = old[i].type
             /\ old[i].type # "number" => new[i].v = old[i].v
             /\ old[i].type = "number" =>
                  LET f == nextFloat(After(nudge.rng, Numerics(old, i) - 1)).f
                      d == f - (Half \div 2)
                  IN  /\ InUnitRange(new[i].v)
                      /\ 0 - MaxNudge <= d /\ d <= MaxNudge
                      /\ new[i].v = Clamp(0, PUnit, old[i].v + d)

\* the same for the entries that are not NaN, a NaN entry staying NaN
C10_NudgeClampedExceptNaN ==
  nudge.asked =>
    LET old == nudge.params
        new == nudge.result.params
    IN  /\ Len(new) = Len(old)
        /\ \A i \in 1..Len(old) :
             /\ new[i].key = old[i].key
             /\ new[i].type = old[i].type
             /\ old[i].type # "number" => new[i].v = old[i].v
             /\ (old[i].type = "number" /\ old[i].v = NaN) => new[i].v = NaN
             /\ (old[i].type = "number" /\ old[i].v # NaN) =>
                  LET f == nextFloat(After(nudge.rng, Numerics(old, i) - 1)).f
                      d == f - (Half \div 2)
                  IN  /\ InUnitRange(new[i].v)
                      /\ 0 - MaxNudge <= d /\ d <= MaxNudge
                      /\ new[i].v = Clamp(0, PUnit, old[i].v + d)

\* a clamped entry, an entry moved inside the range, untouched non-numerics
C10_ClampedReached ==
  /\ nudge.asked
  /\ \E i, j \in 1..Len(nudge.params) :
       /\ nudge.params[i].type = "number"
       /\ nudge.params[i].v > PUnit
       /\ nudge.result.params[i].v = PUnit
       /\ nudge.params[j].type = "boolean"
       /\ nudge.result.params[j] = nudge.params[j]

(***************************************************************************)
(* Properties of the palette stages                                        *)
(***************************************************************************)
\* the last call was quantizeNearest or applyBayer
Quantized == op.name \in {"quantizeNearest", "applyBayer"}

\* C11: quantizeNearest and applyBayer leave the alpha of every pixel
\* unchanged and leave every pixel with alpha 0 unchanged in all its bits
C11_AlphaPreserved ==
  Quantized =>
    /\ Len(canvas.data) = Len(op.before)
    /\ \A i \in 1..Len(op.before) :
         /\ canvas.data[i][1] = op.before[i][1]
         /\ op.before[i][1] = 0 => canvas.data[i] = op.before[i]

\* a dithered buffer with a transparent pixel of non-zero RGB and a
\* semi-transparent pixel whose RGB was rewritten
C11_Witness ==
  /\ op.name = "applyBayer"
  /\ \E i, j \in 1..Len(op.before) :
       /\ op.before[i][1] = 0
       /\ op.before[i] # Transparent
       /\ op.before[j][1] \notin {0, 255}
       /\ canvas.data[j] # op.before[j]

\* the RGB of pixel c is the RGB of one of the colours of palette p
InPalette(p, c) ==
  \E k \in 1..Len(p.colors) :
     /\ p.colors[k][2] = c[2]
     /\ p.colors[k][3] = c[3]
     /\ p.colors[k][4] = c[4]

\* C12: with a non-empty palette, after quantizeNearest and after applyBayer
\* (matrix size 4 or 8) the RGB of every pixel with alpha > 0 is the RGB of
\* one of the palette's colours
C12_PaletteClosure ==
  (Quantized /\ Len(palette.colors) > 0) =>
    \A i \in 1..Len(canvas.data) :
       canvas.data[i][1] > 0 => InPalette(palette, canvas.data[i])

\* an 8x8-matrix dither that moved a semi-transparent pixel and an opaque
\* pixel, neither of a palette colour before, onto palette colours
C12_Witness ==
  /\ op.name = "applyBayer"
  /\ op.size = 8
  /\ Len(palette.colors) > 0
  /\ \E i, j \in 1..Len(op.before) :
       /\ op.before[i][1] = 255
       /\ op.before[j][1] \notin {0, 255}
       /\ ~InPalette(palette, op.before[i])
       /\ ~InPalette(palette, op.before[j])
       /\ InPalette(palette, canvas.data[i])
       /\ InPalette(palette, canvas.data[j])

Outlining == op.name = "enforceRetro" /\ op.outlineWidth >= 1

\* pixels i and j of a buffer of width w are neighbours up, down, left or right
FourNeighbours(w, i, j) ==
  \/ /\ (i - 1) \div w = (j - 1) \div w
     /\ ((i - 1) % w) - ((j - 1) % w) \in {-1, 1}
  \/ /\ (i - 1) % w = (j - 1) % w
     /\ ((i - 1) \div w) - ((j - 1) \div w) \in {-1, 1}

\* pixel i is transparent in the buffer and has a non-transparent 4-neighbour
OnAlphaEdge(w, data, i) ==
  /\ data[i][1] = 0
  /\ \E j \in 1..Len(data) : FourNeighbours(w, i, j) /\ data[j][1] > 0

\* C13: with outlineWidth >= 1 the outline stage of enforceRetro sets to the
\* opaque outline colour exactly the pixels that were transparent in the
\* snapshot and have an in-bounds 4-neighbour with alpha > 0 in the snapshot;
\* every other pixel is left as the earlier stages left it (as it was, when
\* no earlier stage is switched on), so diagonal neighbours do not count and
\* fresh outline pixels cause no further outlining
C13_OutlineStage ==
  Outlining =>
    /\ Len(canvas.data) = Len(op.before)
    /\ \A i \in 1..Len(op.before) :
         IF OnAlphaEdge(canvas.w, op.before, i)
         THEN canvas.data[i] = OutlineColor
         ELSE /\ canvas.data[i][1] = op.before[i][1]
              /\ op.before[i][1] = 0 => canvas.data[i] = op.before[i]
              /\ (op.dither = "none" /\ op.quantizer = "none")
                   => canvas.data[i] = op.before[i]

\* a single pixel was outlined: its four neighbours carry the outline colour,
\* a diagonal neighbour and a neighbour of a fresh outline pixel stay transparent
C13_Witness ==
  /\ Outlining
  /\ op.dither = "none" /\ op.quantizer = "none"
  /\ \E i, j, k, l \in 1..Len(op.before) :
       /\ op.before[i][1] > 0
       /\ FourNeighbours(canvas.w, i, j)
       /\ op.before[j][1] = 0
       /\ canvas.data[j] = OutlineColor
       /\ ~FourNeighbours(canvas.w, i, k)
       /\ ((i - 1) % canvas.w) - ((k - 1) % canvas.w) \in {-1, 1}
       /\ ((i - 1) \div canvas.w) - ((k - 1) \div canvas.w) \in {-1, 1}
       /\ canvas.data[k] = Transparent
       /\ FourNeighbours(canvas.w, j, l)
       /\ l # i
       /\ op.before[l] = Transparent
       /\ canvas.data[l] = Transparent

\* squared distance of two colours over red, green and blue
RgbDistance(c, d) ==
  (c[2] - d[2]) * (c[2] - d[2]) + (c[3] - d[3]) * (c[3] - d[3])
    + (c[4] - d[4]) * (c[4] - d[4])

\* C14: for a non-empty palette nearestColorIndex returns the lowest index
\* among the entries that minimise the squared distance over R, G and B;
\* the alpha of the colour and of the entries plays no part
C14_NearestLowestIndex ==
  (op.name = "nearestColorIndex" /\ Len(palette.colors) > 0) =>
    /\ op.result \in 0..(Len(palette.colors) - 1)
    /\ \A k \in 1..Len(palette.colors) :
         /\ RgbDistance(op.color, palette.colors[op.result + 1])
              <= RgbDistance(op.color, palette.colors[k])
         /\ k < op.result + 1 =>
              RgbDistance(op.color, palette.colors[op.result + 1])
                < RgbDistance(op.color, palette.colors[k])

\* a lookup with two entries at the least distance, the later one with the
\* alpha nearer to the colour's, answered with the earlier one
C14_Witness ==
  /\ op.name = "nearestColorIndex"
  /\ \E k \in 1..Len(palette.colors) :
       /\ k > op.result + 1
       /\ RgbDistance(op.color, palette.colors[k])
            = RgbDistance(op.color, palette.colors[op.result + 1])
       /\ palette.colors[k][1] # palette.colors[op.result + 1][1]
       /\ op.color[1] # palette.colors[op.result + 1][1]

(***************************************************************************)
(* Properties of the pixel buffer                                          *)
(***************************************************************************)
OutOfBounds(x, y) == x < 0 \/ y < 0 \/ x >= canvas.w \/ y >= canvas.h

\* a get that follows a set of the same in-bounds pixel
GetAfterSet ==
  /\ op.name = "get"
  /\ op.last # <<>>
  /\ ~OutOfBounds(op.x, op.y)
  /\ op.last[1] = op.x /\ op.last[2] = op.y

\* out-of-bounds get returns 0, out-of-bounds set changes no pixel
BoundsChecked ==
  /\ (op.name = "get" /\ OutOfBounds(op.x, op.y)) => op.result = Transparent
  /\ (op.name = "set" /\ OutOfBounds(op.x, op.y)) => canvas.data = op.before

\* C15 as stated: out-of-bounds get returns 0 and out-of-bounds set leaves the
\* buffer unchanged; in-bounds get after set returns the value that was set
C15_GetReturnsValueSet ==
  /\ BoundsChecked
  /\ GetAfterSet => op.result = op.last[3]

\* C15, amended: out-of-bounds get returns 0 and out-of-bounds set leaves the
\* buffer unchanged; in-bounds get after set returns the value that was set
\* as an unsigned 32-bit number (c >>> 0)
C15_GetReturnsUnsigned ==
  /\ BoundsChecked
  /\ GetAfterSet => op.result = Uint32(op.last[3])

\* a get after the set of a colour that argb() returned as a negative number
C15_Witness ==
  /\ GetAfterSet
  /\ op.last[3][1] < 0
  /\ op.result[1] = 255

\* an out-of-bounds set on a buffer that is not empty, which it left alone
C15_WitnessOutside ==
  /\ op.name = "set"
  /\ OutOfBounds(op.x, op.y)
  /\ op.c # Transparent
  /\ \E i \in 1..Len(op.before) : op.before[i] # Transparent

Blitted == op.name = "blit"

\* pixel (x, y) of the source has non-zero alpha and lands inside the buffer
Copied(x, y) ==
  /\ op.src.data[y * op.src.w + x + 1][1] # 0
  /\ ~OutOfBounds(op.dx + x, op.dy + y)

\* the index in canvas.data of the pixel that source pixel (x, y) lands on
Target(x, y) == (op.dy + y) * canvas.w + op.dx + x + 1

\* C16: blit(src, dx, dy) writes src(x, y) to (dx + x, dy + y) exactly for the
\* source pixels with non-zero alpha whose target is inside the destination;
\* every other destination pixel and the whole source are unchanged, for
\* negative offsets too
C16_BlitCopiesVisible ==
  Blitted =>
    /\ source = op.src
    /\ Len(canvas.data) = Len(op.before)
    /\ \A x \in 0..(op.src.w - 1), y \in 0..(op.src.h - 1) :
         Copied(x, y) =>
           canvas.data[Target(x, y)] = op.src.data[y * op.src.w + x + 1]
    /\ \A i \in 1..Len(op.before) :
         (\A x \in 0..(op.src.w - 1), y \in 0..(op.src.h - 1) :
            ~(Copied(x, y) /\ Target(x, y) = i))
           => canvas.data[i] = op.before[i]

\* a blit that wrote a pixel and left a painted pixel alone that a transparent
\* source pixel of non-zero RGB landed on
C16_Witness ==
  /\ Blitted
  /\ \E x, u \in 0..(op.src.w - 1), y, v \in 0..(op.src.h - 1) :
       /\ Copied(x, y)
       /\ canvas.data[Target(x, y)] # op.before[Target(x, y)]
       /\ op.src.data[v * op.src.w + u + 1][1] = 0
       /\ op.src.data[v * op.src.w + u + 1] # Transparent
       /\ ~OutOfBounds(op.dx + u, op.dy + v)
       /\ op.before[Target(u, v)] # Transparent
       /\ canvas.data[Target(u, v)] = op.before[Target(u, v)]

\* a blit at a negative offset: one source pixel written, another clipped
C16_WitnessClipped ==
  /\ Blitted
  /\ op.dx < 0 /\ op.dy < 0
  /\ \E x, u \in 0..(op.src.w - 1), y, v \in 0..(op.src.h - 1) :
       /\ Copied(x, y)
       /\ canvas.data[Target(x, y)] # op.before[Target(x, y)]
       /\ op.src.data[v * op.src.w + u + 1][1] # 0
       /\ OutOfBounds(op.dx + u, op.dy + v)

(***************************************************************************)
(* Properties of the seeded stream                                         *)
(***************************************************************************)
\* the calls of a stream without its split calls
RECURSIVE DrawsFrom(_, _)
DrawsFrom(made, i) ==
  IF i > Len(made) THEN <<>>
  ELSE IF made[i][1] = "split" THEN DrawsFrom(made, i + 1)
  ELSE <<made[i]>> \o DrawsFrom(made, i + 1)

SameOrigin(i, j) == streams[i].origin = streams[j].origin

\* C17: two streams made from the same seed and given the same sequence of
\* nextFloat / nextInt / split calls return the same values at every step,
\* and children split off with the same label at the same point do so too
C17_StreamDeterminism ==
  \A i, j \in 1..Len(streams) :
     (SameOrigin(i, j) /\ streams[i].calls = streams[j].calls)
       => streams[i].results = streams[j].results

\* two children, split off twin parents with the same label, have each drawn
\* the same value
C17_Witness ==
  \E i, j \in 1..Len(streams) :
     /\ i # j
     /\ SameOrigin(i, j)
     /\ streams[i].origin[1] = "split"
     /\ Len(streams[i].origin[4]) > 0
     /\ streams[i].calls = streams[j].calls
     /\ Len(streams[i].results) > 0
     /\ streams[i].results = streams[j].results

\* C18: split does not disturb the parent: a stream returns from nextFloat and
\* nextInt, whatever splits were made on it and whatever was drawn from its
\* children, what a stream of the same origin returns that made the same
\* draws; draws on a child change neither the parent nor another child
C18_SplitLeavesParent ==
  \A i, j \in 1..Len(streams) :
     (SameOrigin(i, j)
        /\ DrawsFrom(streams[i].calls, 1) = DrawsFrom(streams[j].calls, 1))
       => streams[i].results = streams[j].results

\* a parent that split, whose child drew, and that then drew the value its
\* twin drew without any split
C18_Witness ==
  \E i, j, k \in 1..Len(streams) :
     /\ SameOrigin(i, j)
     /\ Len(streams[i].calls) = 2
     /\ streams[i].calls[1][1] = "split"
     /\ streams[k].origin = <<"split", streams[i].origin, <<>>, streams[i].calls[1][2]>>
     /\ Len(streams[k].results) > 0
     /\ Len(streams[j].calls) = 1
     /\ Len(streams[i].results) = 1
     /\ streams[i].results = streams[j].results

(***************************************************************************)
(* Properties of the palette registry                                      *)
(***************************************************************************)
ImportDone == op.name = "importCustomPalettes"

\* the <<id, record>> entries of the map that was imported
Records == IF op.doc[1] = "object" THEN op.doc[2] ELSE <<>>

\* the colours of a colour object, in ascending order of their numeric keys:
\* the colour at position n is the one with n - 1 smaller numeric keys
NumericEntries(entries) ==
  {i \in 1..Len(entries) : parseInt(entries[i][1]) # NaN}

Rank(entries, i) ==
  Cardinality({j \in NumericEntries(entries) :
                 parseInt(entries[j][1]) < parseInt(entries[i][1])}) + 1

ColorList(colors) ==
  IF colors[1] = "array" THEN [n \in 1..Len(colors[2]) |-> colors[2][n][2]]
  ELSE IF colors[1] = "object"
  THEN [n \in 1..Cardinality(NumericEntries(colors[2])) |->
          colors[2][CHOOSE i \in NumericEntries(colors[2]) :
                      Rank(colors[2], i) = n][2][2]]
  ELSE <<>>

\* the record is an object with a non-empty name, a non-empty colour list and
\* a positive numeric maxColors
ValidRecord(record) ==
  /\ record[1] = "object"
  /\ record[2].name[1] = "string" /\ record[2].name[2] # ""
  /\ Len(ColorList(record[2].colors)) > 0
  /\ record[2].maxColors[1] = "number" /\ record[2].maxColors[2] > 0

\* both registries hold the record's palette under the record's id
RegisteredAs(id, record) ==
  /\ record[1] = "object"
  /\ record[2].name[1] = "string"
  /\ record[2].maxColors[1] = "number"
  /\ id \in DOMAIN Palettes
  /\ id \in DOMAIN customPalettes
  /\ Palettes[id] = [name |-> record[2].name[2],
                     colors |-> ColorList(record[2].colors),
                     maxColors |-> record[2].maxColors[2]]
  /\ customPalettes[id] = Palettes[id]

\* C19: importCustomPalettes registers a record of the map if and only if it
\* is an object with a non-empty name, a non-empty colour list (a sequence, or
\* an object with numeric string keys read in ascending key order) and a
\* positive numeric maxColors; other records are skipped and the records
\* before and after them are still registered
C19_RegistersValidRecords ==
  ImportDone =>
    \A k \in 1..Len(Records) :
       RegisteredAs(Records[k][1], Records[k][2]) <=> ValidRecord(Records[k][2])

\* an import that registered the records before and after a malformed one,
\* the later one from a colour object whose keys were not in ascending order
C19_Witness ==
  /\ ImportDone
  /\ Len(Records) = 3
  /\ RegisteredAs(Records[1][1], Records[1][2])
  /\ ~ValidRecord(Records[2][2])
  /\ Records[2][2][1] = "object"
  /\ Palettes[Records[2][1]] = BuiltinPalettes[Records[2][1]]
  /\ RegisteredAs(Records[3][1], Records[3][2])
  /\ Records[3][2][2].colors[1] = "object"
  /\ Len(Palettes[Records[3][1]].colors) = 3

\* C20: importCustomPalettes returns true if and only if at least one record
\* was accepted and registered; when it returns false the registry, built-in
\* and custom, is as it was before the call
C20_TrueIffRegistered ==
  ImportDone =>
    /\ op.result <=> \E k \in 1..Len(Records) :
                        /\ ValidRecord(Records[k][2])
                        /\ RegisteredAs(Records[k][1], Records[k][2])
    /\ ~op.result => <<Palettes, customPalettes>> = op.before

\* an import of a map with no valid record into a registry that holds custom
\* palettes: false is returned and nothing moved
C20_Witness ==
  /\ ImportDone
  /\ ~op.result
  /\ Len(Records) > 0
  /\ DOMAIN customPalettes # {}
  /\ <<Palettes, customPalettes>> = op.before

\* an import that returned true
C20_WitnessTrue ==
  /\ ImportDone
  /\ op.result
  /\ \E k \in 1..Len(Records) : ~ValidRecord(Records[k][2])

(***************************************************************************)
(* Properties of the registry in use                                       *)
(***************************************************************************)
\* a palette with a non-empty name, a non-empty colour list and a positive
\* maxColors
ValidPalette(p) == p.name # "" /\ Len(p.colors) > 0 /\ p.maxColors > 0

\* the import of the export the caller holds, into a registry from which all
\* custom palettes were removed
RoundTrip ==
  /\ ImportDone
  /\ op.doc = exported.doc
  /\ DOMAIN op.before[2] = {}

\* C21: custom palettes added with addCustomPalette, exported, all removed and
\* imported again from the exported text are back under the same identifier,
\* each valid one with its name, its number of colours and its colour values
\* in their order
C21_ExportImportRoundTrip ==
  RoundTrip =>
    \A id \in DOMAIN exported.palettes :
       ValidPalette(exported.palettes[id]) =>
         /\ id \in DOMAIN customPalettes
         /\ id \in DOMAIN Palettes
         /\ customPalettes[id].name = exported.palettes[id].name
         /\ customPalettes[id].colors = exported.palettes[id].colors
         /\ Palettes[id] = customPalettes[id]

\* two palettes came back, one of them under an identifier that differs from
\* its name, with three colours of which one is transparent
C21_Witness ==
  /\ RoundTrip
  /\ Cardinality(DOMAIN exported.palettes) >= 2
  /\ \E id \in DOMAIN exported.palettes :
       /\ exported.palettes[id].name # id
       /\ Len(exported.palettes[id].colors) = 3
       /\ customPalettes[id] = exported.palettes[id]

\* a runModule call is under way or has ended, with a palette identifier that
\* the registry does not hold
UnregisteredCall == pc # "idle" /\ opts.paletteName \notin DOMAIN Palettes

\* C22: in every registry state that add, remove and import calls lead to,
\* runModule with an unregistered palette identifier hands the generator the
\* built-in palette NES_13 with its 13 colours and ends without an error
C22_FallbackToDefault ==
  UnregisteredCall =>
    /\ palette = BuiltinPalettes["NES_13"]
    /\ pc # "threw"

BuiltinIds == {"NES_13", "SNES_32", "GB_4"}

\* C23: after any sequence of add, remove and import calls the registry maps
\* NES_13, SNES_32 and GB_4 to the built-in palettes, with their names and
\* their 13, 32 and 4 colours
C23_BuiltinsPermanent ==
  \A id \in BuiltinIds :
     /\ id \in DOMAIN Palettes
     /\ Palettes[id] = BuiltinPalettes[id]

\* C24: after any sequence of add, remove and import calls every custom
\* palette is stored under the identifier made from its own name by replacing
\* each character outside [a-zA-Z0-9_] with '_'
C24_KeyedBySanitizedName ==
  \A id \in DOMAIN customPalettes : id = Sanitize(customPalettes[id].name)

\* C29: after any sequence of add, remove and import calls every identifier
\* of the custom map is in the full map with the same palette, and every
\* identifier of the full map that is not in the custom map is built-in
C29_RegistryConsistent ==
  /\ \A id \in DOMAIN customPalettes :
        id \in DOMAIN Palettes /\ Palettes[id] = customPalettes[id]
  /\ \A id \in DOMAIN Palettes : id \in DOMAIN customPalettes \/ id \in BuiltinIds

\* a custom palette was removed while others, one of them imported and one
\* under a built-in identifier, stay registered
C29_Witness ==
  /\ op.name = "removeCustomPalette"
  /\ op.id \in DOMAIN op.before[2]
  /\ op.id \notin DOMAIN Palettes
  /\ "sunset" \in DOMAIN customPalettes
  /\ "NES_13" \in DOMAIN customPalettes

(***************************************************************************)
(* Properties of the stages of a generation                                *)
(***************************************************************************)
\* C25: in a generation of a module with a finalize hook, the hook is called
\* before enforceRetro, so that the micro-jitter stage of that generation is
\* called with the strength the hook leaves
C25_FinalizeBeforeRetro ==
  \A i, j \in 1..Len(stages) :
    stages[i].stage = "finalize" /\ stages[j].stage = "enforceRetro"
    => i < j /\ stages[j].strength = stages[i].adjusted

\* C26: a request with microJitter = true and microJitterStrength = s hands
\* the generator a context whose retro policy has microJitter true and
\* microJitterStrength s
C26_JitterSettingsCarried ==
  (stages # <<>> /\ opts.microJitter)
  => /\ stages[1].stage = "generate"
     /\ stages[1].microJitter = TRUE
     /\ stages[1].strength = opts.microJitterStrength

(***************************************************************************)
(* Properties of enforceRetro under every setting                          *)
(***************************************************************************)
\* the last call was enforceRetro with the nearest quantizer on a palette
\* that has colours
QuantizedByRetro ==
  /\ op.name = "enforceRetro"
  /\ op.quantizer = "nearest"
  /\ palette.colors # <<>>

OutlinePixel(i) ==
  /\ op.outlineWidth > 0
  /\ op.before[i][1] = 0
  /\ canvas.data[i] = OutlineColor

Unguarded == pc = "done" /\ ~opts.useSimilarityGuard

\* C28: with the similarity guard disabled, a runModule call invokes the
\* generator exactly once, makes no comparison against the guard history and
\* leaves the history as it was when the call began
C28_GuardOffOnePass ==
  /\ Unguarded => /\ generateCalls = 1
                  /\ attempts = <<>>
                  /\ history = startHistory
  /\ (pc = "standard" /\ ~opts.useSimilarityGuard)
       => /\ generateCalls = 0
          /\ attempts = <<>>
          /\ history = startHistory

\* an unguarded call has generated while the history holds the signature of
\* an earlier guarded call
C28_Witness ==
  /\ Unguarded
  /\ generateCalls = 1
  /\ startHistory # <<>>
  /\ history = startHistory

(***************************************************************************)
(* Properties of the colour-usage histogram                                *)
(***************************************************************************)
\* both signatures of a painted pattern have been taken
Signed == op.name = "generateSignature"

\* the number of visible pixels of a buffer with the RGB of pixel i
CountOf(data, i) ==
  Cardinality({j \in 1..Len(data) :
                 /\ data[j][1] # 0
                 /\ data[j][2] = data[i][2]
                 /\ data[j][3] = data[i][3]
                 /\ data[j][4] = data[i][4]})

\* the colours of a buffer, each by the first visible pixel that has it
FirstOfColor(data) ==
  {i \in 1..Len(data) :
     /\ data[i][1] # 0
     /\ \A j \in 1..(i - 1) :
          data[j][1] = 0 \/ CountOf(data, j) = 0
          \/ data[j][2] # data[i][2] \/ data[j][3] # data[i][3]
          \/ data[j][4] # data[i][4]}

\* n is the k-th largest colour count of the buffer, 0 when it has fewer
\* than k colours
KthLargest(data, k, n) ==
  IF k > Cardinality(FirstOfColor(data)) THEN n = 0
  ELSE /\ Cardinality({i \in FirstOfColor(data) : CountOf(data, i) > n}) < k
       /\ Cardinality({i \in FirstOfColor(data) : CountOf(data, i) >= n}) >= k

\* the histogram of the buffer: 32 bins, bin k the k-th largest colour count
\* over the number of visible pixels
CountsOnly(data, usage) ==
  /\ Len(usage.num) = PaletteBins
  /\ \A k \in 1..PaletteBins : KthLargest(data, k, usage.num[k])
  /\ \A k \in 1..(PaletteBins - 1) : usage.num[k] >= usage.num[k + 1]
  /\ Visible(data) => usage.den = Cardinality({i \in 1..Len(data) : data[i][1] # 0})

====
